---- MODULE Spec2Model ----
(***************************************************************************)
(* A model of pshcalc: the mixed-radix counter, the set cursors built on   *)
(* it, the category and presheaf law checkers and the drivers that count   *)
(* algebraic structures.  Every object of the program is one variable      *)
(* holding a record of its fields; an object a specification does not use  *)
(* stays Idle in it.                                                       *)
(***************************************************************************)
EXTENDS Integers, Sequences, FiniteSets, TLC

VARIABLES
    counter,        \* a caller's digit vector driven by advance_counter
    ticker,         \* set/utils: ArrayTicker with the state and array it borrows
    world,          \* set: World
    atom_var,       \* set: AtomSetVariable
    product_var,    \* set: ProductSetVariable
    usize_iter,     \* set/basic_set: USizeStreamingIterator
    tuple_iter,     \* set/product_set: TupleStreamingIterator
    seen,           \* the driver loop's record of what get has yielded
    tuple_handle,   \* set: TupleHandle
    function_handle,\* set: FunctionHandle
    stack_tuple,    \* set: StackTuple<N>
    semigroup_main, \* examples/semigroup: the locals of main
    arena,          \* the World that cat allocates from: values and sizes in parallel
    category_var,   \* cat: CategoryVariable
    validation,     \* a caller of Category::validate: the table's origin and the result
    monoids_main,   \* examples/monoids: the locals of count_monoids
    presheaf_set,   \* psh: PresheafSet, its category and pi
    presheaf_current, \* psh: the Presheaf that reset and next work on
    presheaf_seen,  \* the action tables that reset and next have yielded
    presheaf_validation, \* a caller of Presheaf::validate and its two checkers: the results
    hom_var,        \* set: HomSetVariable
    function_iter,  \* set/hom_set: FunctionStreamingIterator
    handles,        \* the handles a caller of World has constructed
    last_alloc,     \* a caller of World: the last allocation and the World before it
    s_var,          \* examples/composable_triples: the cursor s of main
    t_var           \* examples/composable_triples: the cursor t of main

odometerVars == <<counter, ticker>>
cursorVars == <<world, atom_var, product_var, usize_iter, tuple_iter, seen>>
handleVars == <<tuple_handle, function_handle, stack_tuple>>
exampleVars == <<semigroup_main>>
categoryVars == <<arena, category_var, validation, monoids_main>>
presheafVars == <<presheaf_set, presheaf_current, presheaf_seen>>
presheafCheckVars == <<presheaf_validation>>
homVars == <<hom_var, function_iter>>
allocVars == <<handles, last_alloc>>
pairVars == <<s_var, t_var>>

(* What the actions of one area leave alone: the objects of the other areas. *)
odometerOthers == <<cursorVars, handleVars, exampleVars, categoryVars, presheafVars,
                    presheafCheckVars, homVars, allocVars, pairVars>>
cursorOthers == <<odometerVars, handleVars, exampleVars, categoryVars, presheafVars,
                  presheafCheckVars, allocVars, pairVars>>
handleOthers == <<odometerVars, atom_var, product_var, usize_iter, tuple_iter, seen,
                  exampleVars, categoryVars, presheafVars,
                  presheafCheckVars, homVars, allocVars, pairVars>>
semigroupOthers == <<odometerVars, cursorVars, handleVars, categoryVars, presheafVars,
                     presheafCheckVars, homVars, allocVars, pairVars>>
categoryOthers == <<odometerVars, cursorVars, handleVars, exampleVars, presheafVars,
                    presheafCheckVars, homVars, allocVars, pairVars>>
presheafOthers == <<odometerVars, cursorVars, handleVars, exampleVars, categoryVars,
                    homVars, allocVars, pairVars>>
allocOthers == <<odometerVars, atom_var, product_var, usize_iter, tuple_iter, seen,
                 handleVars, exampleVars, categoryVars, presheafVars, presheafCheckVars,
                 homVars, pairVars>>
pairOthers == <<odometerVars, atom_var, product_var, usize_iter, tuple_iter, seen,
                handleVars, exampleVars, categoryVars, presheafVars, presheafCheckVars,
                homVars, allocVars>>

vars == <<counter, ticker, world, atom_var, product_var, usize_iter, tuple_iter, seen,
          tuple_handle, function_handle, stack_tuple, semigroup_main,
          arena, category_var, validation, monoids_main,
          presheaf_set, presheaf_current, presheaf_seen, presheaf_validation,
          hom_var, function_iter, handles, last_alloc, s_var, t_var>>

(* The value of an object that a specification does not construct. *)
Idle == [idle |-> TRUE]

(* Option: None, or Some(x) with the value in field some. *)
None == [none |-> TRUE]

Some(x) == [some |-> x]

OdometerIdle == counter = Idle /\ ticker = Idle

HomsIdle == hom_var = Idle /\ function_iter = Idle

AllocsIdle == handles = Idle /\ last_alloc = Idle

PairsIdle == s_var = Idle /\ t_var = Idle

CursorsIdle ==
    /\ world = Idle /\ atom_var = Idle /\ product_var = Idle
    /\ usize_iter = Idle /\ tuple_iter = Idle /\ seen = Idle
    /\ HomsIdle /\ AllocsIdle /\ PairsIdle

HandlesIdle == tuple_handle = Idle /\ function_handle = Idle /\ stack_tuple = Idle

ExamplesIdle == semigroup_main = Idle

CategoriesIdle ==
    arena = Idle /\ category_var = Idle /\ validation = Idle /\ monoids_main = Idle

PresheavesIdle ==
    /\ presheaf_set = Idle /\ presheaf_current = Idle /\ presheaf_seen = Idle
    /\ presheaf_validation = Idle

(***************************************************************************)
(* Bounds of the model.                                                    *)
(***************************************************************************)
MaxDigits == 3
MaxLimit == 3

(* usize is modelled as the integers 0 .. UsizeValues - 1: wide enough for
   every size and every in-range digit, and an increment of the largest
   value overflows. *)
UsizeValues == MaxLimit + 2

(***************************************************************************)
(* Helpers on vectors (Rust slices are 0-based, sequences here 1-based:    *)
(* slot i of the code is element i + 1).                                   *)
(***************************************************************************)
Zeros(n) == [i \in 1..n |-> 0]

RECURSIVE Product(_)
Product(s) == IF Len(s) = 0 THEN 1 ELSE Head(s) * Product(Tail(s))

AllPositive(s) == \A i \in 1..Len(s) : s[i] >= 1

NoDuplicates(s) == \A i, j \in 1..Len(s) : s[i] = s[j] => i = j

Range(s) == {s[i] : i \in 1..Len(s)}

(* Every digit vector d with d[i] < limits[i]. *)
DigitVectors(limits) ==
    {d \in [1..Len(limits) -> 0..MaxLimit] : \A i \in 1..Len(limits) : d[i] < limits[i]}

LimitVectors == UNION {[1..n -> 0..MaxLimit] : n \in 1..MaxDigits}

PositiveLimitVectors == UNION {[1..n -> 1..MaxLimit] : n \in 1..MaxDigits}

(***************************************************************************)
(* set/mod.rs: advance_counter.  The loop over i with its early return.    *)
(***************************************************************************)
RECURSIVE advance_counter_from(_, _, _)
advance_counter_from(data, limits, i) ==
    IF i > Len(data)
    THEN [data |-> data, done |-> TRUE]
    ELSE IF data[i] + 1 < limits[i]
         THEN [data |-> [data EXCEPT ![i] = data[i] + 1], done |-> FALSE]
         ELSE advance_counter_from([data EXCEPT ![i] = 0], limits, i + 1)

(* A counter that compares with <= : every digit runs one step too far. *)
RECURSIVE advance_counter_inclusive(_, _, _)
advance_counter_inclusive(data, limits, i) ==
    IF i > Len(data)
    THEN [data |-> data, done |-> TRUE]
    ELSE IF data[i] + 1 <= limits[i]
         THEN [data |-> [data EXCEPT ![i] = data[i] + 1], done |-> FALSE]
         ELSE advance_counter_inclusive([data EXCEPT ![i] = 0], limits, i + 1)

advance_counter_off_by_one(data, limits) == advance_counter_inclusive(data, limits, 1)

(* A counter that carries without resetting the digit that overflowed. *)
RECURSIVE advance_counter_keep_digit(_, _, _)
advance_counter_keep_digit(data, limits, i) ==
    IF i > Len(data)
    THEN [data |-> data, done |-> TRUE]
    ELSE IF data[i] + 1 < limits[i]
         THEN [data |-> [data EXCEPT ![i] = data[i] + 1], done |-> FALSE]
         ELSE advance_counter_keep_digit(data, limits, i + 1)

advance_counter_no_reset(data, limits) == advance_counter_keep_digit(data, limits, 1)

advance_counter(data, limits) == advance_counter_from(data, limits, 1)

(***************************************************************************)
(* set/utils/mod.rs: ArrayTicker::advance, the loop of the Running state.  *)
(* The result is the array and whether the loop ran off its end.           *)
(***************************************************************************)
RECURSIVE ArrayTicker_tick(_, _, _)
ArrayTicker_tick(array, sizes, i) ==
    IF i > Len(array)
    THEN [array |-> array, wrapped |-> TRUE]
    ELSE IF (array[i] + 1) % UsizeValues = sizes[i]
         THEN ArrayTicker_tick([array EXCEPT ![i] = 0], sizes, i + 1)
         ELSE [array |-> [array EXCEPT ![i] = (array[i] + 1) % UsizeValues],
               wrapped |-> FALSE]

(***************************************************************************)
(* The odometer harness: a caller that holds a digit vector, calls         *)
(* advance_counter until it returns true and records every vector it saw.  *)
(***************************************************************************)
CounterInit ==
    \E limits \in LimitVectors :
        counter = [data |-> Zeros(Len(limits)), limits |-> limits,
                   visited |-> <<Zeros(Len(limits))>>, returned |-> FALSE]

CounterAdvance ==
    /\ counter # Idle
    /\ ~counter.returned
    /\ LET r == advance_counter(counter.data, counter.limits)
       IN counter' = [counter EXCEPT
                         !.data = r.data,
                         !.returned = r.done,
                         !.visited = IF r.done THEN @ ELSE Append(@, r.data)]
    /\ UNCHANGED <<ticker, odometerOthers>>

TickerInit ==
    \E sizes \in LimitVectors :
        ticker = [state |-> "Start", array |-> Zeros(Len(sizes)), sizes |-> sizes,
                  seen |-> <<>>]

TickerAdvance ==
    /\ ticker # Idle
    /\ ticker.state # "End"
    /\ \A i \in 1..Len(ticker.array) : ticker.array[i] <= MaxLimit
    /\ \/ /\ ticker.state = "Start"
          /\ ticker' = [ticker EXCEPT !.state = "Running",
                                      !.seen = Append(@, ticker.array)]
       \/ /\ ticker.state = "Running"
          /\ LET r == ArrayTicker_tick(ticker.array, ticker.sizes, 1)
             IN ticker' = [ticker EXCEPT
                              !.array = r.array,
                              !.state = IF r.wrapped THEN "End" ELSE "Running",
                              !.seen = IF r.wrapped THEN @ ELSE Append(@, r.array)]
    /\ UNCHANGED <<counter, odometerOthers>>

TickerAdvanceEnd ==
    /\ ticker # Idle
    /\ ticker.state = "End"
    /\ UNCHANGED vars

InitOdometer ==
    /\ \/ CounterInit /\ ticker = Idle
       \/ TickerInit /\ counter = Idle
    /\ CursorsIdle /\ HandlesIdle /\ ExamplesIdle /\ CategoriesIdle /\ PresheavesIdle

NextOdometer ==
    \/ CounterAdvance
    \/ TickerAdvance
    \/ TickerAdvanceEnd

SpecOdometer == InitOdometer /\ [][NextOdometer]_vars

(***************************************************************************)
(* C1: odometer exhaustiveness.  With at least one digit and every bound   *)
(* >= 1, the vectors seen from the all-zero start up to the first call of  *)
(* advance_counter that returns true are pairwise distinct and in range;   *)
(* when that call returns there are exactly PRODUCT(b_i) of them, they are *)
(* all the digit vectors, and the digits are all zero again.  The same     *)
(* holds of the vectors ArrayTicker shows in its Running state.            *)
(***************************************************************************)
C1_OdometerExhaustive ==
    /\ (counter # Idle /\ AllPositive(counter.limits)) =>
          /\ NoDuplicates(counter.visited)
          /\ Range(counter.visited) \subseteq DigitVectors(counter.limits)
          /\ counter.returned =>
                /\ Len(counter.visited) = Product(counter.limits)
                /\ Range(counter.visited) = DigitVectors(counter.limits)
                /\ counter.data = Zeros(Len(counter.limits))
    /\ (ticker # Idle /\ AllPositive(ticker.sizes)) =>
          /\ NoDuplicates(ticker.seen)
          /\ ticker.state = "End" =>
                /\ Len(ticker.seen) = Product(ticker.sizes)
                /\ Range(ticker.seen) = DigitVectors(ticker.sizes)
                /\ ticker.array = Zeros(Len(ticker.sizes))

C1_Witness ==
    /\ counter # Idle
    /\ counter.limits = <<2, 3, 2>>
    /\ counter.returned
    /\ Len(counter.visited) = 12

(***************************************************************************)
(* set/mod.rs: World.  indices and sizes are two vectors that grow by      *)
(* allocation only; slot p of the code is element p + 1 here.              *)
(***************************************************************************)
World_new == [indices |-> <<>>, sizes |-> <<>>, next_index_slot |-> 0, next_size_slot |-> 0]

(* Vec::resize(n, value): truncate, or extend with value. *)
Resize(vec, n, value) ==
    IF n <= Len(vec) THEN SubSeq(vec, 1, n)
    ELSE vec \o [i \in 1..(n - Len(vec)) |-> value]

(* An allocation that hands out the slots from 0 again. *)
alloc_indices_from_zero(w, count) ==
    [world |-> [w EXCEPT !.indices = Resize(@, w.next_index_slot + count, 0),
                         !.next_index_slot = @ + count],
     start |-> 0]

alloc_indices(w, count) ==
    [world |-> [w EXCEPT !.indices = Resize(@, w.next_index_slot + count, 0),
                         !.next_index_slot = @ + count],
     start |-> w.next_index_slot]

alloc_sizes(w, count) ==
    [world |-> [w EXCEPT !.sizes = Resize(@, w.next_size_slot + count, 0),
                         !.next_size_slot = @ + count],
     start |-> w.next_size_slot]

get_indices(w, start, len) == SubSeq(w.indices, start + 1, start + len)

get_sizes(w, start, len) == SubSeq(w.sizes, start + 1, start + len)

(* get_indices_mut(start, len) followed by a write of the whole slice. *)
put_indices(w, start, len, slice) ==
    [w EXCEPT !.indices = [p \in 1..Len(@) |->
        IF p > start /\ p <= start + len THEN slice[p - start] ELSE @[p]]]

put_sizes(w, start, len, slice) ==
    [w EXCEPT !.sizes = [p \in 1..Len(@) |->
        IF p > start /\ p <= start + len THEN slice[p - start] ELSE @[p]]]

set_index(w, position, value) == [w EXCEPT !.indices[position + 1] = value]

get_index(w, position) == w.indices[position + 1]

(***************************************************************************)
(* set/mod.rs: the handles.                                                *)
(***************************************************************************)
AtomHandle_new(w, size) ==
    LET a == alloc_indices(w, 1)
    IN [world |-> set_index(a.world, a.start, 0),
        handle |-> [index_position |-> a.start]]

AtomHandle_get_index(handle, w) == get_index(w, handle.index_position)

AtomHandle_set_index(handle, w, index) == set_index(w, handle.index_position, index)

(* A TupleHandle whose index range starts one slot late. *)
TupleHandle_new_shifted(w, sizes) ==
    LET len == Len(sizes)
        a == alloc_indices(w, len)
        b == alloc_sizes(a.world, len)
        w1 == put_indices(b.world, a.start, len, Zeros(len))
        w2 == put_sizes(w1, b.start, len, sizes)
    IN [world |-> w2,
        handle |-> [indices_start |-> a.start + 1, sizes_start |-> b.start, len |-> len]]

TupleHandle_new(w, sizes) ==
    LET len == Len(sizes)
        a == alloc_indices(w, len)
        b == alloc_sizes(a.world, len)
        w1 == put_indices(b.world, a.start, len, Zeros(len))
        w2 == put_sizes(w1, b.start, len, sizes)
    IN [world |-> w2,
        handle |-> [indices_start |-> a.start, sizes_start |-> b.start, len |-> len]]

(* FunctionHandle::new: domain_size index slots, each bounded by target_size *)
FunctionHandle_new(w, domain_size, target_size) ==
    LET len == domain_size
        a == alloc_indices(w, len)
        b == alloc_sizes(a.world, len)
        w1 == put_indices(b.world, a.start, len, Zeros(len))
        w2 == put_sizes(w1, b.start, len, [i \in 1..len |-> target_size])
    IN [world |-> w2,
        handle |-> [indices_start |-> a.start, sizes_start |-> b.start, len |-> len,
                    target_size |-> target_size]]

(***************************************************************************)
(* set/mod.rs: AtomSetVariable.                                            *)
(***************************************************************************)
AtomSetVariable_new(w, size) ==
    LET h == AtomHandle_new(w, size)
    IN [world |-> h.world,
        var |-> [done |-> FALSE, current |-> h.handle, size |-> size]]

AtomSetVariable_initialize(var, w) ==
    [var |-> [var EXCEPT !.done = FALSE],
     world |-> AtomHandle_set_index(var.current, w, 0)]

(* The comparison of advance turned around: the last atom is never reached. *)
AtomSetVariable_advance_early(var, w) ==
    IF var.done THEN [var |-> var, world |-> w]
    ELSE LET new_index == AtomHandle_get_index(var.current, w) + 1
         IN IF new_index + 1 >= var.size
            THEN [var |-> [var EXCEPT !.done = TRUE], world |-> w]
            ELSE [var |-> var, world |-> AtomHandle_set_index(var.current, w, new_index)]

AtomSetVariable_advance(var, w) ==
    IF var.done THEN [var |-> var, world |-> w]
    ELSE LET new_index == AtomHandle_get_index(var.current, w) + 1
         IN IF new_index >= var.size
            THEN [var |-> [var EXCEPT !.done = TRUE], world |-> w]
            ELSE [var |-> var, world |-> AtomHandle_set_index(var.current, w, new_index)]

AtomSetVariable_get(var) == IF var.done THEN None ELSE Some(var.current)

(***************************************************************************)
(* set/mod.rs: ProductSet and ProductSetVariable.                          *)
(***************************************************************************)
ProductSet_size(sizes) == Product(sizes)

ProductSetVariable_new(w, sizes) ==
    LET h == TupleHandle_new(w, sizes)
    IN [world |-> h.world,
        var |-> [done |-> FALSE, current |-> h.handle, sizes |-> sizes]]

(* An initialize that clears done and leaves the digits as they are. *)
ProductSetVariable_initialize_keep_digits(var, w) ==
    [var |-> [var EXCEPT !.done = FALSE], world |-> w]

ProductSetVariable_initialize(var, w) ==
    [var |-> [var EXCEPT !.done = FALSE],
     world |-> put_indices(w, var.current.indices_start, var.current.len,
                           Zeros(var.current.len))]

(* An advance that carries from the last digit down: the last component
   varies fastest. *)
ProductSetVariable_advance_big_endian(var, w) ==
    IF var.done THEN [var |-> var, world |-> w]
    ELSE LET indices == get_indices(w, var.current.indices_start, var.current.len)
             rev(v) == [i \in 1..Len(v) |-> v[Len(v) + 1 - i]]
             r == advance_counter(rev(indices), rev(var.sizes))
         IN [var |-> [var EXCEPT !.done = r.done],
             world |-> put_indices(w, var.current.indices_start, var.current.len,
                                   rev(r.data))]

(* An advance without the early return on done. *)
ProductSetVariable_advance_unguarded(var, w) ==
    LET indices == get_indices(w, var.current.indices_start, var.current.len)
        r == advance_counter(indices, var.sizes)
    IN [var |-> [var EXCEPT !.done = r.done],
        world |-> put_indices(w, var.current.indices_start, var.current.len, r.data)]

ProductSetVariable_advance(var, w) ==
    IF var.done THEN [var |-> var, world |-> w]
    ELSE LET indices == get_indices(w, var.current.indices_start, var.current.len)
             r == advance_counter(indices, var.sizes)
         IN [var |-> [var EXCEPT !.done = r.done],
             world |-> put_indices(w, var.current.indices_start, var.current.len, r.data)]

ProductSetVariable_get(var) == IF var.done THEN None ELSE Some(var.current)

(***************************************************************************)
(* The driver loop of the doc tests: initialize, then get / advance until  *)
(* get returns None.  seen.yielded lists, since the last initialize, the   *)
(* element each get returned (an atom's index, a tuple's digits).          *)
(* seen.advanced_when_done tells that advance was called, since the last   *)
(* initialize, on a cursor whose done flag was set.                        *)
(* seen.first is Some(what the first full traversal yielded) once a        *)
(* traversal has run from initialize to exhaustion.  seen.restarted tells   *)
(* where the traversal was at the last initialize made after that: "no"    *)
(* such initialize yet, or a traversal "fresh", "midway" or "exhausted".   *)
(***************************************************************************)
AtomElement(var, w) ==
    IF AtomSetVariable_get(var) = None THEN None
    ELSE Some(AtomHandle_get_index(AtomSetVariable_get(var).some, w))

TupleElement(var, w) ==
    IF ProductSetVariable_get(var) = None THEN None
    ELSE Some(get_indices(w, ProductSetVariable_get(var).some.indices_start,
                          ProductSetVariable_get(var).some.len))

(* What the traversal had reached when initialize is called again. *)
Restart(log, done) ==
    IF log.first = None THEN "no"
    ELSE IF done THEN "exhausted"
    ELSE IF Len(log.yielded) <= 1 THEN "fresh"
    ELSE "midway"

(* The log when advance has returned: the first traversal to reach the end is kept. *)
Completed(log, done) ==
    IF done /\ log.initialized /\ log.first = None
    THEN [log EXCEPT !.first = Some(log.yielded)]
    ELSE log

Yield(log, element) == IF element = None THEN log ELSE Append(log, element.some)

NoCursor == atom_var = Idle /\ product_var = Idle /\ hom_var = Idle

WorldInit ==
    /\ world = World_new
    /\ atom_var = Idle /\ product_var = Idle /\ hom_var = Idle
    /\ usize_iter = Idle /\ tuple_iter = Idle /\ function_iter = Idle
    /\ seen = [initialized |-> FALSE, yielded |-> <<>>, advanced_when_done |-> FALSE,
                restarted |-> "no", first |-> None]

AtomSet_create_variable ==
    /\ world # Idle /\ NoCursor
    /\ \E size \in 0..MaxLimit :
          LET r == AtomSetVariable_new(world, size)
          IN world' = r.world /\ atom_var' = r.var
    /\ UNCHANGED <<product_var, usize_iter, tuple_iter, seen, homVars, cursorOthers>>

AtomSetVariable_initialize_call ==
    /\ atom_var # Idle
    /\ LET r == AtomSetVariable_initialize(atom_var, world)
       IN /\ world' = r.world /\ atom_var' = r.var
          /\ seen' = [initialized |-> TRUE, yielded |-> Yield(<<>>, AtomElement(r.var, r.world)),
                      advanced_when_done |-> FALSE,
                      restarted |-> Restart(seen, atom_var.done),
                      first |-> seen.first]
    /\ UNCHANGED <<product_var, usize_iter, tuple_iter, homVars, cursorOthers>>

AtomSetVariable_advance_call ==
    /\ atom_var # Idle
    /\ LET r == AtomSetVariable_advance(atom_var, world)
       IN /\ world' = r.world /\ atom_var' = r.var
          /\ seen' = IF atom_var.done THEN [seen EXCEPT !.advanced_when_done = TRUE]
                     ELSE Completed([seen EXCEPT !.yielded = Yield(@, AtomElement(r.var, r.world))],
                                    r.var.done)
    /\ UNCHANGED <<product_var, usize_iter, tuple_iter, homVars, cursorOthers>>

ProductSet_create_variable ==
    /\ world # Idle /\ NoCursor
    /\ \E sizes \in LimitVectors :
          LET r == ProductSetVariable_new(world, sizes)
          IN world' = r.world /\ product_var' = r.var
    /\ UNCHANGED <<atom_var, usize_iter, tuple_iter, seen, homVars, cursorOthers>>

ProductSetVariable_initialize_call ==
    /\ product_var # Idle
    /\ LET r == ProductSetVariable_initialize(product_var, world)
       IN /\ world' = r.world /\ product_var' = r.var
          /\ seen' = [initialized |-> TRUE, yielded |-> Yield(<<>>, TupleElement(r.var, r.world)),
                      advanced_when_done |-> FALSE,
                      restarted |-> Restart(seen, product_var.done),
                      first |-> seen.first]
    /\ UNCHANGED <<atom_var, usize_iter, tuple_iter, homVars, cursorOthers>>

ProductSetVariable_advance_call ==
    /\ product_var # Idle
    /\ LET r == ProductSetVariable_advance(product_var, world)
       IN /\ world' = r.world /\ product_var' = r.var
          /\ seen' = IF product_var.done THEN [seen EXCEPT !.advanced_when_done = TRUE]
                     ELSE Completed([seen EXCEPT !.yielded = Yield(@, TupleElement(r.var, r.world))],
                                    r.var.done)
    /\ UNCHANGED <<atom_var, usize_iter, tuple_iter, homVars, cursorOthers>>

(***************************************************************************)
(* set/basic_set/mod.rs: USizeStreamingIterator over a BasicSet.           *)
(***************************************************************************)
USizeStreamingIterator_new(size) ==
    [state |-> "Start", element |-> [index |-> 0], size |-> size]

USizeStreamingIterator_advance(it) ==
    CASE it.state = "Start" -> [it EXCEPT !.state = "Running"]
      [] it.state = "Running" ->
            IF (it.element.index + 1) % UsizeValues = it.size
            THEN [it EXCEPT !.element.index = (@ + 1) % UsizeValues, !.state = "End"]
            ELSE [it EXCEPT !.element.index = (@ + 1) % UsizeValues]
      [] it.state = "End" -> it

USizeStreamingIterator_get(it) ==
    IF it.state = "Running" THEN Some(it.element) ELSE None

(***************************************************************************)
(* set/product_set/mod.rs: TupleStreamingIterator over a ProductSet.       *)
(***************************************************************************)
TupleStreamingIterator_new(sizes) ==
    [state |-> "Start", element |-> [entries |-> Zeros(Len(sizes))], sizes |-> sizes]

RECURSIVE TupleStreamingIterator_tick(_, _, _)
TupleStreamingIterator_tick(entries, sizes, i) ==
    IF i > Len(entries)
    THEN [entries |-> entries, wrapped |-> TRUE]
    ELSE IF (entries[i] + 1) % UsizeValues = sizes[i]
         THEN TupleStreamingIterator_tick([entries EXCEPT ![i] = 0], sizes, i + 1)
         ELSE [entries |-> [entries EXCEPT ![i] = (entries[i] + 1) % UsizeValues],
               wrapped |-> FALSE]

TupleStreamingIterator_advance(it) ==
    CASE it.state = "Start" -> [it EXCEPT !.state = "Running"]
      [] it.state = "Running" ->
            LET r == TupleStreamingIterator_tick(it.element.entries, it.sizes, 1)
            IN [it EXCEPT !.element.entries = r.entries,
                          !.state = IF r.wrapped THEN "End" ELSE "Running"]
      [] it.state = "End" -> it

TupleStreamingIterator_get(it) ==
    IF it.state = "Running" THEN Some(it.element) ELSE None

(* The loop `while let Some(x) = it.next()`: next is advance, then get. *)
USizeIterInit ==
    /\ \E size \in 0..MaxLimit : usize_iter = USizeStreamingIterator_new(size)
    /\ world = Idle /\ atom_var = Idle /\ product_var = Idle /\ tuple_iter = Idle
    /\ HomsIdle
    /\ seen = [initialized |-> TRUE, yielded |-> <<>>, advanced_when_done |-> FALSE,
                restarted |-> "no", first |-> None]

USizeStreamingIterator_next ==
    /\ usize_iter # Idle
    /\ usize_iter.element.index <= MaxLimit
    /\ usize_iter' = USizeStreamingIterator_advance(usize_iter)
    /\ seen' = IF USizeStreamingIterator_get(usize_iter') = None \/ usize_iter.state = "End"
               THEN seen
               ELSE [seen EXCEPT !.yielded =
                        Append(@, USizeStreamingIterator_get(usize_iter').some.index)]
    /\ UNCHANGED <<world, atom_var, product_var, tuple_iter, homVars, cursorOthers>>

TupleIterInit ==
    /\ \E sizes \in LimitVectors : tuple_iter = TupleStreamingIterator_new(sizes)
    /\ world = Idle /\ atom_var = Idle /\ product_var = Idle /\ usize_iter = Idle
    /\ HomsIdle
    /\ seen = [initialized |-> TRUE, yielded |-> <<>>, advanced_when_done |-> FALSE,
                restarted |-> "no", first |-> None]

TupleStreamingIterator_next ==
    /\ tuple_iter # Idle
    /\ \A i \in 1..Len(tuple_iter.sizes) : tuple_iter.element.entries[i] <= MaxLimit
    /\ tuple_iter' = TupleStreamingIterator_advance(tuple_iter)
    /\ seen' = IF TupleStreamingIterator_get(tuple_iter') = None \/ tuple_iter.state = "End"
               THEN seen
               ELSE [seen EXCEPT !.yielded =
                        Append(@, TupleStreamingIterator_get(tuple_iter').some.entries)]
    /\ UNCHANGED <<world, atom_var, product_var, usize_iter, homVars, cursorOthers>>

(***************************************************************************)
(* set/mod.rs: HomSet and HomSetVariable, the functions from a domain of   *)
(* domain_size elements to a target of target_size elements; and           *)
(* set/hom_set/mod.rs: the streaming HomSet with FunctionStreamingIterator.*)
(***************************************************************************)
RECURSIVE Pow(_, _)
Pow(base, exponent) == IF exponent = 0 THEN 1 ELSE base * Pow(base, exponent - 1)

HomSet_new(source_size, target_size) ==
    [domain_size |-> source_size, target_size |-> target_size]

HomSet_size(set) == Pow(set.target_size, set.domain_size)

HomSetVariable_new(w, domain_size, target_size) ==
    LET h == FunctionHandle_new(w, domain_size, target_size)
    IN [world |-> h.world,
        var |-> [done |-> FALSE, current |-> h.handle,
                 sizes |-> [i \in 1..domain_size |-> target_size]]]

(* An initialize that zeroes every index slot of the World. *)
HomSetVariable_initialize_whole_world(var, w) ==
    [var |-> [var EXCEPT !.done = FALSE],
     world |-> put_indices(w, 0, Len(w.indices), Zeros(Len(w.indices)))]

HomSetVariable_initialize(var, w) ==
    [var |-> [var EXCEPT !.done = FALSE],
     world |-> put_indices(w, var.current.indices_start, var.current.len,
                           Zeros(var.current.len))]

(* An advance that drives the first digit only. *)
HomSetVariable_advance_first_digit(var, w) ==
    IF var.done THEN [var |-> var, world |-> w]
    ELSE IF var.current.len = 0 THEN [var |-> [var EXCEPT !.done = TRUE], world |-> w]
    ELSE LET indices == get_indices(w, var.current.indices_start, var.current.len)
             r == advance_counter(SubSeq(indices, 1, 1), SubSeq(var.sizes, 1, 1))
         IN [var |-> [var EXCEPT !.done = r.done],
             world |-> put_indices(w, var.current.indices_start, var.current.len,
                                   r.data \o SubSeq(indices, 2, Len(indices)))]

HomSetVariable_advance(var, w) ==
    IF var.done THEN [var |-> var, world |-> w]
    ELSE LET indices == get_indices(w, var.current.indices_start, var.current.len)
             r == advance_counter(indices, var.sizes)
         IN [var |-> [var EXCEPT !.done = r.done],
             world |-> put_indices(w, var.current.indices_start, var.current.len, r.data)]

HomSetVariable_get(var) == IF var.done THEN None ELSE Some(var.current)

FunctionElement(var, w) ==
    IF HomSetVariable_get(var) = None THEN None
    ELSE Some(get_indices(w, HomSetVariable_get(var).some.indices_start,
                          HomSetVariable_get(var).some.len))

(* (domain_size, target_size) of the hom-sets that are built *)
HomShapes ==
    {<<1, 1>>, <<1, 2>>, <<2, 1>>, <<2, 2>>, <<1, 3>>, <<3, 2>>, <<2, 3>>, <<4, 2>>,
     <<0, 2>>, <<2, 0>>}

HomSet_create_variable ==
    /\ world # Idle /\ NoCursor
    /\ \E shape \in HomShapes :
          LET r == HomSetVariable_new(world, shape[1], shape[2])
          IN world' = r.world /\ hom_var' = r.var
    /\ UNCHANGED <<atom_var, product_var, usize_iter, tuple_iter, function_iter, seen,
                   cursorOthers>>

HomSetVariable_initialize_call ==
    /\ hom_var # Idle
    /\ LET r == HomSetVariable_initialize(hom_var, world)
       IN /\ world' = r.world /\ hom_var' = r.var
          /\ seen' = [initialized |-> TRUE,
                      yielded |-> Yield(<<>>, FunctionElement(r.var, r.world)),
                      advanced_when_done |-> FALSE,
                      restarted |-> Restart(seen, hom_var.done),
                      first |-> seen.first]
    /\ UNCHANGED <<atom_var, product_var, usize_iter, tuple_iter, function_iter,
                   cursorOthers>>

HomSetVariable_advance_call ==
    /\ hom_var # Idle
    /\ LET r == HomSetVariable_advance(hom_var, world)
       IN /\ world' = r.world /\ hom_var' = r.var
          /\ seen' = IF hom_var.done THEN [seen EXCEPT !.advanced_when_done = TRUE]
                     ELSE Completed([seen EXCEPT !.yielded = Yield(@, FunctionElement(r.var, r.world))],
                                    r.var.done)
    /\ UNCHANGED <<atom_var, product_var, usize_iter, tuple_iter, function_iter,
                   cursorOthers>>

hom_set_HomSet_new(source_size, target_size) ==
    [sizes |-> [i \in 1..source_size |-> target_size]]

hom_set_HomSet_size(set) == Product(set.sizes)

FunctionStreamingIterator_new(set) ==
    [state |-> "Start", element |-> [entries |-> Zeros(Len(set.sizes))],
     sizes |-> set.sizes]

FunctionStreamingIterator_advance(it) ==
    CASE it.state = "Start" -> [it EXCEPT !.state = "Running"]
      [] it.state = "Running" ->
            LET r == ArrayTicker_tick(it.element.entries, it.sizes, 1)
            IN [it EXCEPT !.element.entries = r.array,
                          !.state = IF r.wrapped THEN "End" ELSE "Running"]
      [] it.state = "End" -> it

FunctionStreamingIterator_get(it) ==
    IF it.state = "End" THEN None ELSE Some(it.element)

FunctionIterInit ==
    /\ \E shape \in {h \in HomShapes : h[2] >= 1} :
          function_iter = FunctionStreamingIterator_new(hom_set_HomSet_new(shape[1], shape[2]))
    /\ world = Idle /\ atom_var = Idle /\ product_var = Idle /\ hom_var = Idle
    /\ usize_iter = Idle /\ tuple_iter = Idle
    /\ seen = [initialized |-> TRUE, yielded |-> <<>>, advanced_when_done |-> FALSE,
                restarted |-> "no", first |-> None]

FunctionStreamingIterator_next ==
    /\ function_iter # Idle
    /\ function_iter' = FunctionStreamingIterator_advance(function_iter)
    /\ seen' = IF FunctionStreamingIterator_get(function_iter') = None
                  \/ function_iter.state = "End"
               THEN seen
               ELSE [seen EXCEPT !.yielded =
                        Append(@, FunctionStreamingIterator_get(function_iter').some.entries)]
    /\ UNCHANGED <<world, atom_var, product_var, hom_var, usize_iter, tuple_iter,
                   cursorOthers>>

InitCursors ==
    /\ WorldInit \/ USizeIterInit \/ TupleIterInit \/ FunctionIterInit
    /\ AllocsIdle /\ PairsIdle
    /\ OdometerIdle /\ HandlesIdle /\ ExamplesIdle /\ CategoriesIdle /\ PresheavesIdle

NextCursors ==
    \/ AtomSet_create_variable
    \/ AtomSetVariable_initialize_call
    \/ AtomSetVariable_advance_call
    \/ ProductSet_create_variable
    \/ ProductSetVariable_initialize_call
    \/ ProductSetVariable_advance_call
    \/ USizeStreamingIterator_next
    \/ TupleStreamingIterator_next
    \/ HomSet_create_variable
    \/ HomSetVariable_initialize_call
    \/ HomSetVariable_advance_call
    \/ FunctionStreamingIterator_next

SpecCursors == InitCursors /\ [][NextCursors]_vars

(* 0, 1, ..., n - 1 *)
UpTo(n) == [i \in 1..n |-> i - 1]

IsPrefix(s, t) == Len(s) <= Len(t) /\ \A i \in 1..Len(s) : s[i] = t[i]

(***************************************************************************)
(* C9: flat-set enumeration.  For an AtomSet of size n >= 1, initialize    *)
(* followed by the get / advance loop yields the indices 0, 1, ..., n-1 in *)
(* that order and then get returns None, so n atoms are yielded; the       *)
(* BasicSet streaming iterator yields the same sequence.                   *)
(***************************************************************************)
C9_FlatSetEnumeration ==
    /\ (atom_var # Idle /\ atom_var.size >= 1 /\ seen.initialized) =>
          /\ IsPrefix(seen.yielded, UpTo(atom_var.size))
          /\ AtomSetVariable_get(atom_var) = None <=> atom_var.done
          /\ atom_var.done => seen.yielded = UpTo(atom_var.size)
          /\ ~atom_var.done =>
                AtomHandle_get_index(atom_var.current, world) = Len(seen.yielded) - 1
    /\ (usize_iter # Idle /\ usize_iter.size >= 1) =>
          /\ IsPrefix(seen.yielded, UpTo(usize_iter.size))
          /\ usize_iter.state = "End" =>
                /\ seen.yielded = UpTo(usize_iter.size)
                /\ USizeStreamingIterator_get(usize_iter) = None

C9_Witness ==
    /\ atom_var # Idle
    /\ atom_var.size = 3
    /\ seen.initialized
    /\ atom_var.done
    /\ seen.yielded = <<0, 1, 2>>

(* The digit vectors below sizes in little-endian order: the t-th one
   (t from 0) has digit i equal to (t div (sizes[1] * ... * sizes[i-1]))
   mod sizes[i]. *)
LittleEndianOrder(sizes) ==
    [t \in 1..Product(sizes) |->
        [i \in 1..Len(sizes) |-> ((t - 1) \div Product(SubSeq(sizes, 1, i - 1))) % sizes[i]]]

(***************************************************************************)
(* C10: product-set enumeration.  For positive sizes a full traversal      *)
(* (initialize, then get / advance until get is None) yields exactly       *)
(* size() = PRODUCT s_i tuples, the first component varying fastest; for   *)
(* sizes (2,3): (0,0),(1,0),(0,1),(1,1),(0,2),(1,2).  The tuple streaming  *)
(* iterator yields the same sequence.                                      *)
(***************************************************************************)
C10_ProductSetEnumeration ==
    /\ (product_var # Idle /\ AllPositive(product_var.sizes) /\ seen.initialized) =>
          /\ IsPrefix(seen.yielded, LittleEndianOrder(product_var.sizes))
          /\ product_var.done =>
                /\ Len(seen.yielded) = ProductSet_size(product_var.sizes)
                /\ seen.yielded = LittleEndianOrder(product_var.sizes)
                /\ ProductSetVariable_get(product_var) = None
          /\ (product_var.done /\ product_var.sizes = <<2, 3>>) =>
                seen.yielded = << <<0,0>>, <<1,0>>, <<0,1>>, <<1,1>>, <<0,2>>, <<1,2>> >>
    /\ (tuple_iter # Idle /\ AllPositive(tuple_iter.sizes)) =>
          /\ IsPrefix(seen.yielded, LittleEndianOrder(tuple_iter.sizes))
          /\ tuple_iter.state = "End" =>
                seen.yielded = LittleEndianOrder(tuple_iter.sizes)

C10_Witness ==
    /\ product_var # Idle
    /\ product_var.sizes = <<2, 3>>
    /\ seen.initialized
    /\ product_var.done
    /\ Len(seen.yielded) = 6

(***************************************************************************)
(* set/mod.rs: linear indexing.  calculate_linear_index with its binary    *)
(* fast path and its loop with a running multiplier, and the               *)
(* to_linear_index of TupleHandle, FunctionHandle and StackTuple<N>.       *)
(***************************************************************************)
(* The loop with a multiplier that is never updated. *)
RECURSIVE linear_index_loop_unit_stride(_, _, _, _, _)
linear_index_loop_unit_stride(indices, sizes, i, index, multiplier) ==
    IF i > Len(indices) THEN index
    ELSE linear_index_loop_unit_stride(indices, sizes, i + 1,
                                       index + indices[i] * multiplier, multiplier)

RECURSIVE linear_index_loop(_, _, _, _, _)
linear_index_loop(indices, sizes, i, index, multiplier) ==
    IF i > Len(indices) THEN index
    ELSE linear_index_loop(indices, sizes, i + 1,
                           index + indices[i] * multiplier, multiplier * sizes[i])

(* The binary fast path written with the wrong stride: sizes[1] for sizes[0]. *)
calculate_linear_index_wrong_stride(indices, sizes) ==
    IF Len(indices) = 2
    THEN indices[1] + indices[2] * sizes[2]
    ELSE linear_index_loop(indices, sizes, 1, 0, 1)

(* product_set/mod.rs: Tuple::index, the same loop without the binary fast path. *)
Tuple_index(entries, sizes) == linear_index_loop(entries, sizes, 1, 0, 1)

calculate_linear_index(indices, sizes) ==
    IF Len(indices) = 2
    THEN indices[1] + indices[2] * sizes[1]
    ELSE linear_index_loop(indices, sizes, 1, 0, 1)

TupleHandle_to_linear_index(handle, w) ==
    LET indices == get_indices(w, handle.indices_start, handle.len)
        sizes == get_sizes(w, handle.sizes_start, handle.len)
    IN IF handle.len = 2
       THEN indices[1] + indices[2] * sizes[1]
       ELSE calculate_linear_index(indices, sizes)

FunctionHandle_set_value(handle, w, position, value) ==
    set_index(w, handle.indices_start + position, value)

FunctionHandle_get_value(handle, w, position) ==
    get_index(w, handle.indices_start + position)

FunctionHandle_to_linear_index(handle, w) ==
    LET indices == get_indices(w, handle.indices_start, handle.len)
        sizes == get_sizes(w, handle.sizes_start, handle.len)
    IN IF handle.len = 2
       THEN indices[1] + indices[2] * sizes[1]
       ELSE calculate_linear_index(indices, sizes)

StackTuple_new(sizes) == [indices |-> Zeros(Len(sizes)), sizes |-> sizes]

StackTuple_set_index(tuple, position, value) ==
    [tuple EXCEPT !.indices[position + 1] = value]

StackTuple_to_linear_index(tuple) ==
    IF Len(tuple.indices) = 2
    THEN tuple.indices[1] + tuple.indices[2] * tuple.sizes[1]
    ELSE linear_index_loop(tuple.indices, tuple.sizes, 1, 0, 1)

(***************************************************************************)
(* A caller that builds one handle (after some earlier allocation, so that *)
(* the handle need not start at slot 0) and writes digits below the bounds *)
(* into it.                                                                *)
(***************************************************************************)
MaxPadding == 1

PaddedWorld(pad) == alloc_sizes(alloc_indices(World_new, pad).world, pad).world

TupleHandleInit ==
    /\ \E sizes \in PositiveLimitVectors, pad \in 0..MaxPadding :
          LET r == TupleHandle_new(PaddedWorld(pad), sizes)
          IN world = r.world /\ tuple_handle = r.handle
    /\ function_handle = Idle /\ stack_tuple = Idle

FunctionHandleInit ==
    /\ \E domain_size \in 1..MaxDigits, target_size \in 1..MaxLimit, pad \in 0..MaxPadding :
          LET r == FunctionHandle_new(PaddedWorld(pad), domain_size, target_size)
          IN world = r.world /\ function_handle = r.handle
    /\ tuple_handle = Idle /\ stack_tuple = Idle

StackTupleInit ==
    /\ \E sizes \in PositiveLimitVectors : stack_tuple = StackTuple_new(sizes)
    /\ world = World_new
    /\ tuple_handle = Idle /\ function_handle = Idle

TupleHandle_write ==
    /\ tuple_handle # Idle
    /\ \E position \in 0..(tuple_handle.len - 1) :
          \E value \in 0..(get_sizes(world, tuple_handle.sizes_start, tuple_handle.len)[position + 1] - 1) :
             world' = set_index(world, tuple_handle.indices_start + position, value)
    /\ UNCHANGED <<tuple_handle, function_handle, stack_tuple, handleOthers>>

FunctionHandle_set_value_call ==
    /\ function_handle # Idle
    /\ \E position \in 0..(function_handle.len - 1) :
          \E value \in 0..(function_handle.target_size - 1) :
             world' = FunctionHandle_set_value(function_handle, world, position, value)
    /\ UNCHANGED <<tuple_handle, function_handle, stack_tuple, handleOthers>>

StackTuple_set_index_call ==
    /\ stack_tuple # Idle
    /\ \E position \in 0..(Len(stack_tuple.sizes) - 1) :
          \E value \in 0..(stack_tuple.sizes[position + 1] - 1) :
             stack_tuple' = StackTuple_set_index(stack_tuple, position, value)
    /\ UNCHANGED <<world, tuple_handle, function_handle, handleOthers>>

InitLinearIndex ==
    /\ TupleHandleInit \/ FunctionHandleInit \/ StackTupleInit
    /\ atom_var = Idle /\ product_var = Idle /\ usize_iter = Idle
    /\ tuple_iter = Idle /\ seen = Idle
    /\ HomsIdle /\ AllocsIdle /\ PairsIdle
    /\ OdometerIdle /\ ExamplesIdle /\ CategoriesIdle /\ PresheavesIdle

NextLinearIndex ==
    \/ TupleHandle_write
    \/ FunctionHandle_set_value_call
    \/ StackTuple_set_index_call

SpecLinearIndex == InitLinearIndex /\ [][NextLinearIndex]_vars

(* SUM_i d_i * PRODUCT_{j<i} b_j, digit 0 least significant. *)
RECURSIVE WeightedSum(_, _, _)
WeightedSum(d, b, i) ==
    IF i = 0 THEN 0
    ELSE d[i] * Product(SubSeq(b, 1, i - 1)) + WeightedSum(d, b, i - 1)

LittleEndianIndex(d, b) == WeightedSum(d, b, Len(d))

(* index is a bijection from the digit vectors below b onto 0 .. PRODUCT b - 1 *)
IsBijection(b, index(_)) ==
    /\ \A d \in DigitVectors(b) : index(d) \in 0..(Product(b) - 1)
    /\ \A d, e \in DigitVectors(b) : index(d) = index(e) => d = e
    /\ \A k \in 0..(Product(b) - 1) : \E d \in DigitVectors(b) : index(d) = k

semigroup_TupleStreamingIterator_new(sizes) ==
    [state |-> "Start", current |-> Zeros(Len(sizes)), sizes |-> sizes]

RECURSIVE semigroup_tick(_, _, _)
semigroup_tick(array, sizes, i) ==
    IF i > Len(array)
    THEN [array |-> array, wrapped |-> TRUE]
    ELSE IF (array[i] + 1) % UsizeValues = sizes[i]
         THEN semigroup_tick([array EXCEPT ![i] = 0], sizes, i + 1)
         ELSE [array |-> [array EXCEPT ![i] = (array[i] + 1) % UsizeValues],
               wrapped |-> FALSE]

semigroup_TupleStreamingIterator_advance(it) ==
    CASE it.state = "Start" -> [it EXCEPT !.state = "Running"]
      [] it.state = "Running" ->
            LET r == semigroup_tick(it.current, it.sizes, 1)
            IN [it EXCEPT !.current = r.array,
                          !.state = IF r.wrapped THEN "End" ELSE "Running"]
      [] it.state = "End" -> it

semigroup_TupleStreamingIterator_get(it) ==
    IF it.state = "Running" THEN Some(it.current) ELSE None

semigroup_HomSet_iter(source_size, target_size) ==
    semigroup_TupleStreamingIterator_new([i \in 1..source_size |-> target_size])

semigroup_get(s, n, i, j) == s[n * i + j + 1]

(* The loops of is_associative, run from triple (i, j, k) on: the number of
   triples compared up to and including the first mismatch, and whether the
   loops ended without one. *)
RECURSIVE is_associative_from(_, _, _, _, _, _)
is_associative_from(s, n, i, j, k, compared) ==
    IF i >= n THEN [result |-> TRUE, compared |-> compared]
    ELSE IF j >= n THEN is_associative_from(s, n, i + 1, 0, 0, compared)
    ELSE IF k >= n THEN is_associative_from(s, n, i, j + 1, 0, compared)
    ELSE LET left == semigroup_get(s, n, semigroup_get(s, n, i, j), k)
             right == semigroup_get(s, n, i, semigroup_get(s, n, j, k))
         IN IF left # right
            THEN [result |-> FALSE, compared |-> compared + 1]
            ELSE is_associative_from(s, n, i, j, k + 1, compared + 1)

(* The innermost loop stops one short: k = n - 1 is never compared. *)
RECURSIVE is_associative_short_from(_, _, _, _, _, _)
is_associative_short_from(s, n, i, j, k, compared) ==
    IF i >= n THEN [result |-> TRUE, compared |-> compared]
    ELSE IF j >= n THEN is_associative_short_from(s, n, i + 1, 0, 0, compared)
    ELSE IF k >= n - 1 THEN is_associative_short_from(s, n, i, j + 1, 0, compared)
    ELSE LET left == semigroup_get(s, n, semigroup_get(s, n, i, j), k)
             right == semigroup_get(s, n, i, semigroup_get(s, n, j, k))
         IN IF left # right
            THEN [result |-> FALSE, compared |-> compared + 1]
            ELSE is_associative_short_from(s, n, i, j, k + 1, compared + 1)

is_associative_run_short(s, n) == is_associative_short_from(s, n, 0, 0, 0, 0)

is_associative_run(s, n) == is_associative_from(s, n, 0, 0, 0, 0)

is_associative(s, n) == is_associative_run(s, n).result

(***************************************************************************)
(* examples/semigroup.rs: main.  One action is one turn of                 *)
(* `while let Some(array) = multiplication.next()`.  main fixes the set    *)
(* size n = 4, which gives 4^16 tables; the model runs main for the sizes  *)
(* whose tables can be enumerated, n^(n*n) = 1, 16 and 19683.              *)
(***************************************************************************)
SemigroupSizes == {1, 2, 3}

SemigroupInit ==
    \E n \in SemigroupSizes :
        semigroup_main = [n |-> n, multiplication |-> semigroup_HomSet_iter(n * n, n),
                          count |-> 0, tables |-> 0, finished |-> FALSE]

semigroup_main_loop ==
    /\ semigroup_main # Idle
    /\ ~semigroup_main.finished
    /\ LET it == semigroup_TupleStreamingIterator_advance(semigroup_main.multiplication)
           array == semigroup_TupleStreamingIterator_get(it)
       IN semigroup_main' =
             IF array = None
             THEN [semigroup_main EXCEPT !.multiplication = it, !.finished = TRUE]
             ELSE [semigroup_main EXCEPT
                      !.multiplication = it,
                      !.tables = @ + 1,
                      !.count = IF is_associative(array.some, semigroup_main.n)
                                THEN @ + 1 ELSE @]
    /\ UNCHANGED semigroupOthers

InitSemigroup ==
    /\ SemigroupInit
    /\ OdometerIdle /\ CursorsIdle /\ HandlesIdle /\ CategoriesIdle /\ PresheavesIdle

NextSemigroup == semigroup_main_loop

SpecSemigroup == InitSemigroup /\ [][NextSemigroup]_vars

(***************************************************************************)
(* C6: among the 16 binary operation tables on a 2-element set that the    *)
(* function-space iterator HomSet::new(n*n, n).iter() enumerates for       *)
(* n = 2, exactly 8 are accepted by is_associative.                        *)
(***************************************************************************)
C6_AssociativeCount ==
    (semigroup_main # Idle /\ semigroup_main.n = 2) =>
        /\ semigroup_main.count <= 8
        /\ semigroup_main.finished =>
              /\ semigroup_main.tables = 16
              /\ semigroup_main.count = 8

C6_Witness ==
    /\ semigroup_main # Idle
    /\ semigroup_main.n = 2
    /\ semigroup_main.finished
    /\ semigroup_main.count = 8

(* The triples (i, j, k), numbered in the order of the loops: i outermost. *)
TripleOrder(n, i, j, k) == (i * n + j) * n + k

Mismatch(s, n, i, j, k) ==
    s[n * s[n * i + j + 1] + k + 1] # s[n * i + s[n * j + k + 1] + 1]

(***************************************************************************)
(* C7: is_associative(s, n) returns true if and only if                    *)
(* f(f(i,j),k) = f(i,f(j,k)) for all i, j, k in 0..n-1, where              *)
(* f(i,j) = s[n*i + j]; it returns false at the first mismatching triple   *)
(* in the i, j, k loop order: it has then compared that triple and the     *)
(* triples before it, and no other.                                        *)
(***************************************************************************)
C7_IsAssociativeExact ==
    (semigroup_main # Idle /\ semigroup_main.multiplication.state = "Running") =>
        LET s == semigroup_main.multiplication.current
            n == semigroup_main.n
            r == is_associative_run(s, n)
            bad == {t \in (0..(n-1)) \X (0..(n-1)) \X (0..(n-1)) :
                       Mismatch(s, n, t[1], t[2], t[3])}
        IN /\ is_associative(s, n) <=> bad = {}
           /\ r.result => r.compared = n * n * n
           /\ ~r.result =>
                 \E t \in bad :
                    /\ \A u \in bad :
                          TripleOrder(n, t[1], t[2], t[3]) <= TripleOrder(n, u[1], u[2], u[3])
                    /\ r.compared = TripleOrder(n, t[1], t[2], t[3]) + 1

C7_Witness ==
    /\ semigroup_main # Idle
    /\ semigroup_main.n = 2
    /\ semigroup_main.multiplication.state = "Running"
    /\ ~is_associative(semigroup_main.multiplication.current, 2)
    /\ is_associative_run(semigroup_main.multiplication.current, 2).compared > 1

(***************************************************************************)
(* The World that cat/mod.rs allocates from.  Its methods alloc,           *)
(* get_values, get_sizes and advance_counter over a DataRange, and the     *)
(* Function view with apply and domain, are used by cat/mod.rs but are not *)
(* among the sources; they are modelled from the design document: an arena *)
(* of two parallel vectors, allocate appending zeroed slots and returning  *)
(* their range, the odometer run on a range's digits and bounds, and a     *)
(* function table addressed by the linear index of its arguments.          *)
(***************************************************************************)
DataRange_new(start, len) == [start |-> start, len |-> len]

Arena_new == [values |-> <<>>, sizes |-> <<>>]

World_alloc(w, len) ==
    [world |-> [values |-> w.values \o Zeros(len), sizes |-> w.sizes \o Zeros(len)],
     range |-> DataRange_new(Len(w.values), len)]

World_get_values(w, range) == SubSeq(w.values, range.start + 1, range.start + range.len)

World_get_sizes(w, range) == SubSeq(w.sizes, range.start + 1, range.start + range.len)

World_put_values(w, range, slice) ==
    [w EXCEPT !.values = [p \in 1..Len(@) |->
        IF p > range.start /\ p <= range.start + range.len THEN slice[p - range.start]
        ELSE @[p]]]

World_put_sizes(w, range, slice) ==
    [w EXCEPT !.sizes = [p \in 1..Len(@) |->
        IF p > range.start /\ p <= range.start + range.len THEN slice[p - range.start]
        ELSE @[p]]]

World_advance_counter(w, range) ==
    LET r == advance_counter(World_get_values(w, range), World_get_sizes(w, range))
    IN [world |-> World_put_values(w, range, r.data), done |-> r.done]

(* set/mod.rs: StackAtom, and the linear index of an array of StackAtoms,
   which takes the stride from the first atom's size. *)
StackAtom_new(index, size) == [index |-> index, size |-> size]

RECURSIVE StackAtoms_index_loop(_, _, _, _, _)
StackAtoms_index_loop(atoms, size, i, result, multiplier) ==
    IF i > Len(atoms) THEN result
    ELSE StackAtoms_index_loop(atoms, size, i + 1,
                               result + atoms[i].index * multiplier, multiplier * size)

StackAtoms_to_linear_index(atoms) ==
    IF Len(atoms) = 0 THEN 0
    ELSE StackAtoms_index_loop(atoms, atoms[1].size, 1, 0, 1)

Function_new(values, sizes) == [values |-> values, sizes |-> sizes]

Function_apply(function, atoms) ==
    LET linear_index == StackAtoms_to_linear_index(atoms)
    IN StackAtom_new(function.values[linear_index + 1], function.sizes[linear_index + 1])

(* domain(): the AtomSet of the table's slots; iterating it yields the
   StackAtoms 0 .. size - 1 (AtomSetIterator). *)
Function_domain(function) == Len(function.values)

AtomSetIterator_items(size) == [i \in 1..size |-> StackAtom_new(i - 1, size)]

(***************************************************************************)
(* cat/mod.rs: Category, a view of one allocation: source, target,         *)
(* identity and the full morphism_count x morphism_count composition       *)
(* table, in that order.                                                   *)
(***************************************************************************)
Category_source_range(morphism_count, object_count) == DataRange_new(0, morphism_count)

Category_target_range(morphism_count, object_count) ==
    DataRange_new(morphism_count, morphism_count)

Category_identity_range(morphism_count, object_count) ==
    DataRange_new(2 * morphism_count, object_count)

Category_composition_range(morphism_count, object_count) ==
    DataRange_new(2 * morphism_count + object_count, morphism_count * morphism_count)

Slice(vec, range) == SubSeq(vec, range.start + 1, range.start + range.len)

Category_source(c) ==
    LET range == Category_source_range(c.morphism_count, c.object_count)
    IN Function_new(Slice(c.values, range), Slice(c.sizes, range))

Category_target(c) ==
    LET range == Category_target_range(c.morphism_count, c.object_count)
    IN Function_new(Slice(c.values, range), Slice(c.sizes, range))

Category_identity(c) ==
    LET range == Category_identity_range(c.morphism_count, c.object_count)
    IN Function_new(Slice(c.values, range), Slice(c.sizes, range))

Category_composition(c) ==
    LET range == Category_composition_range(c.morphism_count, c.object_count)
    IN Function_new(Slice(c.values, range), Slice(c.sizes, range))

Ok == [ok |-> TRUE]

IncompatibleComposition(g, f) == [err |-> "IncompatibleComposition", g |-> g, f |-> f]

NonAssociative(h, g, f) == [err |-> "NonAssociative", morphisms |-> <<h, g, f>>]

NotAnIdentity(morphism) == [err |-> "NotAnIdentity", morphism |-> morphism]

(* for f in morphisms { for g in morphisms { .. } }, from the pair (f, g) on *)
RECURSIVE well_definedness_loop(_, _, _, _, _, _)
well_definedness_loop(morphisms, composition, source, target, fi, gi) ==
    IF fi > Len(morphisms) THEN Ok
    ELSE IF gi > Len(morphisms)
         THEN well_definedness_loop(morphisms, composition, source, target, fi + 1, 1)
    ELSE LET f == morphisms[fi]
             g == morphisms[gi]
             target_f == Function_apply(target, <<f>>)
             source_g == Function_apply(source, <<g>>)
             composed == Function_apply(composition, <<g, f>>)
         IN IF target_f # source_g /\ composed.index # 0
            THEN IncompatibleComposition(g.index, f.index)
            ELSE well_definedness_loop(morphisms, composition, source, target, fi, gi + 1)

(* A well-definedness check that accepts every table. *)
Category_validate_well_definedness_skipped(morphisms, composition, source, target) == Ok

Category_validate_well_definedness(morphisms, composition, source, target) ==
    well_definedness_loop(morphisms, composition, source, target, 1, 1)

(* for x in objects { for f in morphisms { .. } }, from the pair (x, f) on *)
RECURSIVE identity_laws_loop(_, _, _, _, _, _, _, _)
identity_laws_loop(objects, morphisms, composition, source, target, identity, xi, fi) ==
    IF xi > Len(objects) THEN Ok
    ELSE IF fi > Len(morphisms)
         THEN identity_laws_loop(objects, morphisms, composition, source, target,
                                 identity, xi + 1, 1)
    ELSE LET x == objects[xi]
             id_x == Function_apply(identity, <<x>>)
             f == morphisms[fi]
             source_f == Function_apply(source, <<f>>)
             target_f == Function_apply(target, <<f>>)
         IN IF source_f = x /\ Function_apply(composition, <<f, id_x>>) # f
            THEN NotAnIdentity(id_x.index)
            ELSE IF target_f = x /\ Function_apply(composition, <<id_x, f>>) # f
            THEN NotAnIdentity(id_x.index)
            ELSE identity_laws_loop(objects, morphisms, composition, source, target,
                                    identity, xi, fi + 1)

(* The identity laws checked on the source side only. *)
RECURSIVE identity_laws_source_only(_, _, _, _, _, _, _, _)
identity_laws_source_only(objects, morphisms, composition, source, target, identity, xi, fi) ==
    IF xi > Len(objects) THEN Ok
    ELSE IF fi > Len(morphisms)
         THEN identity_laws_source_only(objects, morphisms, composition, source, target,
                                        identity, xi + 1, 1)
    ELSE LET x == objects[xi]
             id_x == Function_apply(identity, <<x>>)
             f == morphisms[fi]
             source_f == Function_apply(source, <<f>>)
         IN IF source_f = x /\ Function_apply(composition, <<f, id_x>>) # f
            THEN NotAnIdentity(id_x.index)
            ELSE identity_laws_source_only(objects, morphisms, composition, source, target,
                                           identity, xi, fi + 1)

Category_validate_identity_laws_source_only(objects, morphisms, composition, source, target, identity) ==
    identity_laws_source_only(objects, morphisms, composition, source, target, identity, 1, 1)

Category_validate_identity_laws(objects, morphisms, composition, source, target, identity) ==
    identity_laws_loop(objects, morphisms, composition, source, target, identity, 1, 1)

(* The three loops nested the other way round: h outermost, f innermost. *)
RECURSIVE associativity_loop_h_outermost(_, _, _, _, _)
associativity_loop_h_outermost(morphisms, composition, hi, gi, fi) ==
    IF hi > Len(morphisms) THEN Ok
    ELSE IF gi > Len(morphisms)
         THEN associativity_loop_h_outermost(morphisms, composition, hi + 1, 1, 1)
    ELSE IF fi > Len(morphisms)
         THEN associativity_loop_h_outermost(morphisms, composition, hi, gi + 1, 1)
    ELSE LET f == morphisms[fi]
             g == morphisms[gi]
             h == morphisms[hi]
             left == Function_apply(composition,
                                    <<Function_apply(composition, <<h, g>>), f>>)
             right == Function_apply(composition,
                                     <<h, Function_apply(composition, <<g, f>>)>>)
         IN IF left # right
            THEN NonAssociative(h.index, g.index, f.index)
            ELSE associativity_loop_h_outermost(morphisms, composition, hi, gi, fi + 1)

(* for f { for g { for h { .. } } }, from the triple (f, g, h) on *)
RECURSIVE associativity_loop(_, _, _, _, _)
associativity_loop(morphisms, composition, fi, gi, hi) ==
    IF fi > Len(morphisms) THEN Ok
    ELSE IF gi > Len(morphisms) THEN associativity_loop(morphisms, composition, fi + 1, 1, 1)
    ELSE IF hi > Len(morphisms) THEN associativity_loop(morphisms, composition, fi, gi + 1, 1)
    ELSE LET f == morphisms[fi]
             g == morphisms[gi]
             h == morphisms[hi]
             left == Function_apply(composition,
                                    <<Function_apply(composition, <<h, g>>), f>>)
             right == Function_apply(composition,
                                     <<h, Function_apply(composition, <<g, f>>)>>)
         IN IF left # right
            THEN NonAssociative(h.index, g.index, f.index)
            ELSE associativity_loop(morphisms, composition, fi, gi, hi + 1)

(* An associativity check that accepts every table. *)
Category_validate_associativity_skipped(morphisms, composition) == Ok

Category_validate_associativity(morphisms, composition) ==
    associativity_loop(morphisms, composition, 1, 1, 1)

(* validate: the `?` after each check returns its error at once. *)
Category_validate(c) ==
    LET objects == AtomSetIterator_items(Function_domain(Category_identity(c)))
        morphisms == AtomSetIterator_items(Function_domain(Category_source(c)))
        composition == Category_composition(c)
        source == Category_source(c)
        target == Category_target(c)
        identity == Category_identity(c)
        r1 == Category_validate_identity_laws(objects, morphisms, composition,
                                              source, target, identity)
        r2 == Category_validate_associativity(morphisms, composition)
        r3 == Category_validate_well_definedness(morphisms, composition, source, target)
    IN IF r1 # Ok THEN r1
       ELSE IF r2 # Ok THEN r2
       ELSE IF r3 # Ok THEN r3
       ELSE Ok

(***************************************************************************)
(* cat/mod.rs: CategoryVariable.                                           *)
(***************************************************************************)
CategoryVariable_new(w, object_count, morphism_count) ==
    LET total_len == 2 * morphism_count + object_count + morphism_count * morphism_count
        a == World_alloc(w, total_len)
        source_range == Category_source_range(morphism_count, object_count)
        target_range == Category_target_range(morphism_count, object_count)
        identity_range == Category_identity_range(morphism_count, object_count)
        sizes == [p \in 1..total_len |->
                    IF p <= source_range.start + source_range.len THEN object_count
                    ELSE IF p <= target_range.start + target_range.len THEN object_count
                    ELSE IF p <= identity_range.start + identity_range.len THEN morphism_count
                    ELSE morphism_count]
        w1 == World_put_sizes(a.world, a.range, sizes)
        w2 == World_put_values(w1, a.range, Zeros(total_len))
    IN [world |-> w2,
        var |-> [data_range |-> a.range, morphism_count |-> morphism_count,
                 object_count |-> object_count, done |-> FALSE]]

CategoryVariable_initialize(var, w) ==
    [var |-> [var EXCEPT !.done = FALSE],
     world |-> World_put_values(w, var.data_range, Zeros(var.data_range.len))]

CategoryVariable_advance(var, w) ==
    IF var.done THEN [var |-> var, world |-> w]
    ELSE LET composition_range ==
                 Category_composition_range(var.morphism_count, var.object_count)
             r == World_advance_counter(w, composition_range)
         IN [var |-> [var EXCEPT !.done = r.done], world |-> r.world]

CategoryVariable_get(var, w) ==
    IF var.done THEN None
    ELSE Some([values |-> World_get_values(w, var.data_range),
               sizes |-> World_get_sizes(w, var.data_range),
               morphism_count |-> var.morphism_count,
               object_count |-> var.object_count])

(***************************************************************************)
(* Callers of the category code.                                           *)
(***************************************************************************)
(* (object_count, morphism_count) of the categories that are built *)
CategoryShapes == {<<1, 1>>, <<1, 2>>, <<2, 2>>, <<1, 3>>}

(* the n of count_monoids(n) *)
MonoidSizes == {1, 2, 3}

(* Every vector of values with values[i] < sizes[i]. *)
RECURSIVE InRangeValues(_)
InRangeValues(sizes) ==
    IF Len(sizes) = 0 THEN {<<>>}
    ELSE {<<d>> \o rest : d \in 0..(Head(sizes) - 1), rest \in InRangeValues(Tail(sizes))}

(* A caller allocates a category and writes a table of in-range values
   through get_values_mut. *)
(* The tables over two objects and three morphisms id_0, id_1 and one arrow
   0 -> 1: source, target and identity are fixed, the composition is any. *)
ArrowCandidates ==
    {<<0, 1, 0>> \o <<0, 1, 1>> \o <<0, 1>> \o composition :
        composition \in InRangeValues([i \in 1..9 |-> 3])}

ValidateInit ==
    \/ \E shape \in CategoryShapes :
          LET created == CategoryVariable_new(Arena_new, shape[1], shape[2])
          IN \E values \in InRangeValues(created.world.sizes) :
                /\ arena = World_put_values(created.world, created.var.data_range, values)
                /\ category_var = created.var
                /\ validation = [origin |-> "supplied", result |-> None]
                /\ monoids_main = Idle
    \/ LET created == CategoryVariable_new(Arena_new, 2, 3)
       IN \E values \in ArrowCandidates :
             /\ arena = World_put_values(created.world, created.var.data_range, values)
             /\ category_var = created.var
             /\ validation = [origin |-> "supplied", result |-> None]
             /\ monoids_main = Idle

Category_validate_call ==
    /\ validation # Idle
    /\ validation.result = None
    /\ validation' = [validation EXCEPT
          !.result = Some(Category_validate(CategoryVariable_get(category_var, arena).some))]
    /\ UNCHANGED <<arena, category_var, monoids_main, categoryOthers>>

(* A caller replaces one composition entry of a table that validated. *)
replace_composition_entry ==
    /\ validation # Idle
    /\ validation.origin = "supplied"
    /\ validation.result = Some(Ok)
    /\ LET composition_range ==
               Category_composition_range(category_var.morphism_count,
                                          category_var.object_count)
           first == category_var.data_range.start + composition_range.start
       IN \E slot \in (first + 1)..(first + composition_range.len),
             value \in 0..(category_var.morphism_count - 1) :
              /\ value # arena.values[slot]
              /\ arena' = [arena EXCEPT !.values[slot] = value]
    /\ validation' = [origin |-> "replaced", result |-> None]
    /\ UNCHANGED <<category_var, monoids_main, categoryOthers>>

InitValidate ==
    /\ ValidateInit
    /\ OdometerIdle /\ CursorsIdle /\ HandlesIdle /\ ExamplesIdle /\ PresheavesIdle

NextValidate == Category_validate_call \/ replace_composition_entry

SpecValidate == InitValidate /\ [][NextValidate]_vars

(* examples/monoids.rs: count_monoids(n), one iteration of its loop per step *)
MonoidsInit ==
    \E n \in MonoidSizes :
        LET created == CategoryVariable_new(Arena_new, 1, n)
        IN /\ arena = created.world
           /\ category_var = created.var
           /\ monoids_main = [n |-> n, count |-> 0, tables |-> 0, last |-> None,
                              counted |-> FALSE, finished |-> FALSE,
                              advanced_when_done |-> FALSE]
           /\ validation = Idle

count_monoids_loop ==
    /\ monoids_main # Idle
    /\ ~monoids_main.finished
    /\ LET category == CategoryVariable_get(category_var, arena)
           advanced == CategoryVariable_advance(category_var, arena)
       IN IF category = None
          THEN /\ monoids_main' = [monoids_main EXCEPT !.finished = TRUE]
               /\ UNCHANGED <<arena, category_var>>
          ELSE /\ monoids_main' = [monoids_main EXCEPT
                      !.tables = @ + 1,
                      !.last = Some(category.some),
                      !.counted = (Category_validate(category.some) = Ok),
                      !.count = IF Category_validate(category.some) = Ok THEN @ + 1 ELSE @]
               /\ category_var' = advanced.var
               /\ arena' = advanced.world
    /\ UNCHANGED <<validation, categoryOthers>>

(* A caller restarts the enumeration and counts again from zero. *)
CategoryVariable_initialize_call ==
    /\ monoids_main # Idle
    /\ LET initialized == CategoryVariable_initialize(category_var, arena)
       IN /\ category_var' = initialized.var
          /\ arena' = initialized.world
    /\ monoids_main' = [monoids_main EXCEPT !.count = 0, !.tables = 0, !.last = None,
                                            !.counted = FALSE, !.finished = FALSE,
                                            !.advanced_when_done = FALSE]
    /\ UNCHANGED <<validation, categoryOthers>>

InitCategory ==
    /\ MonoidsInit
    /\ OdometerIdle /\ CursorsIdle /\ HandlesIdle /\ ExamplesIdle /\ PresheavesIdle

NextCategory == count_monoids_loop \/ CategoryVariable_initialize_call

SpecCategory == InitCategory /\ [][NextCategory]_vars

(***************************************************************************)
(* The three laws of a category, read off the table of a Category view c:  *)
(* composition(g, f) is the entry that composition().apply(&[g, f]) reads. *)
(***************************************************************************)
LawSource(c, f) == c.values[f + 1]

LawTarget(c, f) == c.values[c.morphism_count + f + 1]

LawIdentity(c, x) == c.values[2 * c.morphism_count + x + 1]

LawComposition(c, g, f) ==
    c.values[2 * c.morphism_count + c.object_count + g + f * c.morphism_count + 1]

Morphisms(c) == 0..(c.morphism_count - 1)

Objects(c) == 0..(c.object_count - 1)

IdentityLaw(c) ==
    \A x \in Objects(c), f \in Morphisms(c) :
        /\ LawSource(c, f) = x => LawComposition(c, f, LawIdentity(c, x)) = f
        /\ LawTarget(c, f) = x => LawComposition(c, LawIdentity(c, x), f) = f

AssociativityLaw(c) ==
    \A f, g, h \in Morphisms(c) :
        LawComposition(c, LawComposition(c, h, g), f)
            = LawComposition(c, h, LawComposition(c, g, f))

WellDefinednessLaw(c) ==
    \A f, g \in Morphisms(c) :
        LawTarget(c, f) # LawSource(c, g) => LawComposition(c, g, f) = 0

SatisfiesLaws(c) == IdentityLaw(c) /\ AssociativityLaw(c) /\ WellDefinednessLaw(c)

IsCategoryError(r) ==
    /\ r # Ok
    /\ r.err \in {"IncompatibleComposition", "NonAssociative", "NotAnIdentity"}

Validated == validation # Idle /\ validation.result # None

ValidatedView == CategoryVariable_get(category_var, arena).some

(***************************************************************************)
(* C3: every candidate the category cursor yields has passed               *)
(* Category::validate -- after new or initialize and after every advance,  *)
(* get returns a category only if validate() on it is Ok.                  *)
(***************************************************************************)
C3_YieldsOnlyValidated ==
    (monoids_main # Idle /\ CategoryVariable_get(category_var, arena) # None) =>
        Category_validate(CategoryVariable_get(category_var, arena).some) = Ok

(***************************************************************************)
(* C4: Category::validate returns Ok exactly when the candidate satisfies  *)
(* the identity laws, associativity of composition and well-definedness    *)
(* (composition(g, f) = 0 whenever target(f) # source(g)); otherwise it    *)
(* returns one of the three errors.                                        *)
(***************************************************************************)
C4_ValidateIffLaws ==
    Validated =>
        /\ validation.result.some = Ok <=> SatisfiesLaws(ValidatedView)
        /\ validation.result.some # Ok => IsCategoryError(validation.result.some)

C4_Witness ==
    /\ Validated
    /\ validation.result.some = Ok
    /\ category_var.object_count = 2
    /\ \E f \in Morphisms(ValidatedView) : LawSource(ValidatedView, f) = 1

C4_WitnessRejected ==
    /\ Validated
    /\ validation.result.some # Ok
    /\ validation.result.some.err = "IncompatibleComposition"

(***************************************************************************)
(* C5, as stated: for a one-object category whose composition table is a   *)
(* valid monoid table, replacing any single composition entry by a value   *)
(* that makes the table non-associative makes validate() return            *)
(* Err(NonAssociative).                                                    *)
(***************************************************************************)
ReplacedInMonoid ==
    /\ Validated
    /\ validation.origin = "replaced"
    /\ category_var.object_count = 1

PshCategory_number_of_objects(c) == c.number_of_objects

PshCategory_number_of_morphisms(c) == c.number_of_morphisms

PshCategory_morphisms(c) == UpTo(c.number_of_morphisms)

PshCategory_source(c, f) == IF f < c.number_of_objects THEN f ELSE c.source[f + 1]

PshCategory_target(c, f) == IF f < c.number_of_objects THEN f ELSE c.target[f + 1]

PshCategory_composition(c, g, f) ==
    LET n == c.number_of_objects
        k == c.number_of_morphisms - c.number_of_objects
    IN IF g < n THEN (IF PshCategory_target(c, f) = g THEN f ELSE 0)
       ELSE IF f < n THEN (IF PshCategory_source(c, g) = f THEN g ELSE 0)
       ELSE c.table[(g - n) + (f - n) * k + 1]

(***************************************************************************)
(* psh/mod.rs: Presheaf.                                                   *)
(***************************************************************************)
Presheaf_new(category, pi, action) ==
    [number_of_sections |-> Len(pi),
     number_of_objects |-> PshCategory_number_of_objects(category),
     number_of_morphisms |-> PshCategory_number_of_morphisms(category),
     pi |-> pi,
     action |-> action]

Presheaf_sections(p) == UpTo(p.number_of_sections)

Presheaf_pi(p, index) == p.pi[index + 1]

(* A variant of Presheaf::action that reads the table with the strides of
   the two coordinates exchanged. *)
Presheaf_action_transposed(p, section, morphism) ==
    IF morphism < p.number_of_objects THEN section
    ELSE p.action[section * (p.number_of_morphisms - p.number_of_objects)
                      + (morphism - p.number_of_objects) + 1]

Presheaf_action(p, section, morphism) ==
    IF morphism < p.number_of_objects THEN section
    ELSE p.action[section + (morphism - p.number_of_objects) * p.number_of_sections + 1]

NotWellDefined(sec, f) == [err |-> "NotWellDefined", s |-> sec, f |-> f]

PresheafNonAssociative(sec, f, g) == [err |-> "NonAssociative", triple |-> <<sec, f, g>>]

(* cursor!(s in &sections => { cursor!(f in &morphisms => { cursor!(g ..) }) }) *)
RECURSIVE presheaf_associativity_loop(_, _, _, _, _, _, _)
presheaf_associativity_loop(p, category, sections, morphisms, si, fi, gi) ==
    IF si > Len(sections) THEN Ok
    ELSE IF fi > Len(morphisms)
         THEN presheaf_associativity_loop(p, category, sections, morphisms, si + 1, 1, 1)
    ELSE IF gi > Len(morphisms)
         THEN presheaf_associativity_loop(p, category, sections, morphisms, si, fi + 1, 1)
    ELSE LET sec == sections[si]
             f == morphisms[fi]
             g == morphisms[gi]
             left == Presheaf_action(p, Presheaf_action(p, sec, f), g)
             right == Presheaf_action(p, sec, PshCategory_composition(category, g, f))
         IN IF left # right THEN PresheafNonAssociative(sec, f, g)
            ELSE presheaf_associativity_loop(p, category, sections, morphisms,
                                             si, fi, gi + 1)

(* A functoriality check that accepts every action table. *)
Presheaf_validate_associativity_skipped(p, category) == Ok

Presheaf_validate_associativity(p, category) ==
    presheaf_associativity_loop(p, category, Presheaf_sections(p),
                                PshCategory_morphisms(category), 1, 1, 1)

RECURSIVE presheaf_well_definedness_loop(_, _, _, _, _, _)
presheaf_well_definedness_loop(p, category, sections, morphisms, si, fi) ==
    IF si > Len(sections) THEN Ok
    ELSE IF fi > Len(morphisms)
         THEN presheaf_well_definedness_loop(p, category, sections, morphisms, si + 1, 1)
    ELSE LET sec == sections[si]
             f == morphisms[fi]
             s_f == Presheaf_action(p, sec, f)
             v == Presheaf_pi(p, s_f)
             source_f == PshCategory_source(category, f)
             u == Presheaf_pi(p, sec)
             target_f == PshCategory_target(category, f)
         IN IF v # source_f THEN NotWellDefined(sec, f)
            ELSE IF u # target_f /\ s_f # 0 THEN NotWellDefined(sec, f)
            ELSE presheaf_well_definedness_loop(p, category, sections, morphisms,
                                                si, fi + 1)

Presheaf_validate_well_definedness(p, category) ==
    presheaf_well_definedness_loop(p, category, Presheaf_sections(p),
                                   PshCategory_morphisms(category), 1, 1)

Presheaf_validate(p, category) ==
    LET r1 == Presheaf_validate_associativity(p, category)
        r2 == Presheaf_validate_well_definedness(p, category)
    IN IF r1 # Ok THEN r1
       ELSE IF r2 # Ok THEN r2
       ELSE Ok

(***************************************************************************)
(* psh/mod.rs: PresheafSet.                                                *)
(***************************************************************************)
PresheafSet_new(category, pi) == [category |-> category, pi |-> pi]

PresheafSet_allocate(set) ==
    LET number_of_nonidentity_morphisms ==
            PshCategory_number_of_morphisms(set.category)
                - PshCategory_number_of_objects(set.category)
        number_of_sections == Len(set.pi)
    IN Presheaf_new(set.category, set.pi,
                    Zeros(number_of_sections * number_of_nonidentity_morphisms))

(* An odometer step that returns the first raw table without validating it. *)
RECURSIVE PresheafSet_next_unvalidated(_, _, _)
PresheafSet_next_unvalidated(set, current, i) ==
    IF i > Len(current.action)
    THEN [found |-> FALSE, current |-> current, depth |-> 0, skipped |-> 0]
    ELSE IF current.action[i] + 1 < Len(set.pi)
         THEN [found |-> TRUE, current |-> [current EXCEPT !.action[i] = @ + 1],
               depth |-> 0, skipped |-> 0]
         ELSE PresheafSet_next_unvalidated(set, [current EXCEPT !.action[i] = 0], i + 1)

(* next: the loop for i in 0..current.action.len(), entered at slot i; on an
   invalid table it calls itself from the first slot (`return self.next(current)`).
   depth is the number of invocations of next nested inside this one when the
   innermost returns, skipped the number of invalid tables passed over. *)
RECURSIVE PresheafSet_next_from(_, _, _)
PresheafSet_next_from(set, current, i) ==
    IF i > Len(current.action)
    THEN [found |-> FALSE, current |-> current, depth |-> 0, skipped |-> 0]
    ELSE IF current.action[i] + 1 < Len(set.pi)
         THEN LET bumped == [current EXCEPT !.action[i] = @ + 1]
              IN IF Presheaf_validate(bumped, set.category) = Ok
                 THEN [found |-> TRUE, current |-> bumped, depth |-> 0, skipped |-> 0]
                 ELSE LET nested == PresheafSet_next_from(set, bumped, 1)
                      IN [nested EXCEPT !.depth = @ + 1, !.skipped = @ + 1]
         ELSE PresheafSet_next_from(set, [current EXCEPT !.action[i] = 0], i + 1)

PresheafSet_next(set, current) == PresheafSet_next_from(set, current, 1)

PresheafSet_reset(set, current) ==
    LET zeroed == [current EXCEPT !.pi = Zeros(Len(current.pi)),
                                  !.action = Zeros(Len(current.action))]
    IN IF Presheaf_validate(zeroed, set.category) = Ok
       THEN [found |-> TRUE, current |-> zeroed, depth |-> 0, skipped |-> 0]
       ELSE [PresheafSet_next(set, zeroed) EXCEPT !.skipped = @ + 1]

(***************************************************************************)
(* A caller of PresheafSet: allocate, then reset, next, next, ... until    *)
(* next returns false.                                                     *)
(***************************************************************************)
(* (number_of_objects, number_of_morphisms, number_of_sections) *)
PresheafShapes ==
    {<<1, 1, 0>>, <<1, 1, 2>>, <<1, 2, 0>>, <<1, 2, 1>>, <<1, 2, 2>>, <<1, 2, 3>>,
     <<1, 3, 0>>, <<1, 3, 1>>, <<1, 3, 2>>, <<2, 2, 1>>, <<2, 2, 2>>, <<2, 3, 0>>,
     <<2, 3, 2>>}

Constant(n, value) == [i \in 1..n |-> value]

(* The stored table is associative, composites of non-composable pairs are
   the sentinel, and a composite has the source and target of its factors. *)
PshCategory_is_category(c) ==
    LET M == 0..(c.number_of_morphisms - 1)
        comp(g, f) == PshCategory_composition(c, g, f)
    IN /\ \A f, g, h \in M : comp(comp(h, g), f) = comp(h, comp(g, f))
       /\ \A f, g \in M :
             IF PshCategory_target(c, f) # PshCategory_source(c, g)
             THEN comp(g, f) = 0
             ELSE /\ PshCategory_source(c, comp(g, f)) = PshCategory_source(c, f)
                  /\ PshCategory_target(c, comp(g, f)) = PshCategory_target(c, g)

PshCategories(n, m) ==
    {c \in {[number_of_objects |-> n, number_of_morphisms |-> m,
             source |-> UpTo(n) \o src, target |-> UpTo(n) \o tgt, table |-> table] :
                src \in InRangeValues(Constant(m - n, n)),
                tgt \in InRangeValues(Constant(m - n, n)),
                table \in InRangeValues(Constant((m - n) * (m - n), m))} :
        PshCategory_is_category(c)}

PresheafInit ==
    \E shape \in PresheafShapes :
        \E category \in PshCategories(shape[1], shape[2]),
           pi \in InRangeValues(Constant(shape[3], shape[1])) :
            /\ presheaf_set = PresheafSet_new(category, pi)
            /\ presheaf_current = PresheafSet_allocate(PresheafSet_new(category, pi))
            /\ presheaf_seen = [yielded |-> <<>>, started |-> FALSE, finished |-> FALSE,
                                depth |-> 0, skipped |-> 0]
            /\ presheaf_validation = Idle

PresheafSet_reset_call ==
    /\ presheaf_set # Idle
    /\ LET r == PresheafSet_reset(presheaf_set, presheaf_current)
       IN /\ presheaf_current' = r.current
          /\ presheaf_seen' = [yielded |-> IF r.found THEN <<r.current.action>> ELSE <<>>,
                               started |-> TRUE, finished |-> ~r.found,
                               depth |-> r.depth, skipped |-> r.skipped]
    /\ UNCHANGED <<presheaf_set, presheaf_validation, presheafOthers>>

PresheafSet_next_call ==
    /\ presheaf_set # Idle
    /\ presheaf_seen.started
    /\ ~presheaf_seen.finished
    /\ LET r == PresheafSet_next(presheaf_set, presheaf_current)
       IN /\ presheaf_current' = r.current
          /\ presheaf_seen' = [presheaf_seen EXCEPT
                !.yielded = IF r.found THEN Append(@, r.current.action) ELSE @,
                !.finished = ~r.found,
                !.depth = r.depth,
                !.skipped = r.skipped]
    /\ UNCHANGED <<presheaf_set, presheaf_validation, presheafOthers>>

InitPresheaf ==
    /\ PresheafInit
    /\ OdometerIdle /\ CursorsIdle /\ HandlesIdle /\ ExamplesIdle /\ CategoriesIdle

NextPresheaf == PresheafSet_reset_call \/ PresheafSet_next_call

SpecPresheaf == InitPresheaf /\ [][NextPresheaf]_vars

(* The action tables of the set: one entry in [0, number_of_sections) for
   every pair of a section and a non-identity morphism. *)
ActionTables(set) ==
    LET k == set.category.number_of_morphisms - set.category.number_of_objects
    IN InRangeValues(Constant(Len(set.pi) * k, Len(set.pi)))

IsValidActionTable(set, a) ==
    /\ \A i \in 1..Len(a) : a[i] \in 0..(Len(set.pi) - 1)
    /\ Presheaf_validate(Presheaf_new(set.category, set.pi, a), set.category) = Ok

ValidActionTables(set) == {a \in ActionTables(set) : IsValidActionTable(set, a)}

(***************************************************************************)
(* C2: validated presheaf enumeration is exact.  For a PresheafSet over a  *)
(* category and pi, the sequence reset, next, next, ... until next returns *)
(* false yields exactly the action tables for which Presheaf::validate is  *)
(* Ok: every yielded table validates, none is yielded twice, and when next *)
(* has returned false every valid table has been yielded.                  *)
(***************************************************************************)
C2_PresheafEnumerationExact ==
    presheaf_set # Idle =>
        /\ \A i \in 1..Len(presheaf_seen.yielded) :
              IsValidActionTable(presheaf_set, presheaf_seen.yielded[i])
        /\ NoDuplicates(presheaf_seen.yielded)
        /\ presheaf_seen.finished =>
              Range(presheaf_seen.yielded) = ValidActionTables(presheaf_set)

C2_Witness ==
    /\ presheaf_set # Idle
    /\ presheaf_seen.finished
    /\ Len(presheaf_seen.yielded) >= 3
    /\ Cardinality(ActionTables(presheaf_set)) > Len(presheaf_seen.yielded)
    /\ presheaf_set.category.number_of_morphisms = 3

(* The function tables from a domain of a elements to a target of b. *)
FunctionTables(a, b) == [1..a -> 0..(b - 1)]

(***************************************************************************)
(* C11: function-space size.  For a HomSet from a domain of size a >= 1 to *)
(* a codomain of size b >= 1, size() is b^a and a full HomSetVariable      *)
(* traversal yields exactly b^a pairwise distinct function tables: 4 for   *)
(* 2 -> 2 and 16 for a 4-element domain and a 2-element codomain.  The     *)
(* streaming HomSet has the same size and yields the same tables.          *)
(***************************************************************************)
C11_FunctionSpaceSize ==
    /\ (hom_var # Idle /\ hom_var.current.len >= 1 /\ hom_var.current.target_size >= 1
           /\ seen.initialized) =>
          LET a == hom_var.current.len
              b == hom_var.current.target_size
          IN /\ HomSet_size(HomSet_new(a, b)) = Cardinality(FunctionTables(a, b))
             /\ NoDuplicates(seen.yielded)
             /\ \A i \in 1..Len(seen.yielded) : seen.yielded[i] \in FunctionTables(a, b)
             /\ hom_var.done =>
                   /\ Len(seen.yielded) = HomSet_size(HomSet_new(a, b))
                   /\ Range(seen.yielded) = FunctionTables(a, b)
                   /\ (a = 2 /\ b = 2) => Len(seen.yielded) = 4
                   /\ (a = 4 /\ b = 2) => Len(seen.yielded) = 16
    /\ (function_iter # Idle /\ Len(function_iter.sizes) >= 1) =>
          LET a == Len(function_iter.sizes)
              b == function_iter.sizes[1]
          IN /\ hom_set_HomSet_size(hom_set_HomSet_new(a, b)) = Cardinality(FunctionTables(a, b))
             /\ NoDuplicates(seen.yielded)
             /\ function_iter.state = "End" =>
                   /\ Len(seen.yielded) = Cardinality(FunctionTables(a, b))
                   /\ Range(seen.yielded) = FunctionTables(a, b)

C11_Witness ==
    /\ hom_var # Idle
    /\ hom_var.current.len = 4
    /\ hom_var.current.target_size = 2
    /\ seen.initialized
    /\ hom_var.done
    /\ Len(seen.yielded) = 16

(***************************************************************************)
(* A caller of the presheaf law checker: it builds a Presheaf over a       *)
(* category with Presheaf::new and calls validate and its two checkers;    *)
(* it may first overwrite the action table with the one that sends every   *)
(* (section, morphism) pair to the section itself.                         *)
(***************************************************************************)
(* (number_of_objects, number_of_morphisms, number_of_sections) *)
PresheafCheckShapes ==
    {<<1, 1, 1>>, <<1, 2, 0>>, <<1, 2, 1>>, <<1, 2, 2>>, <<1, 3, 2>>,
     <<2, 2, 1>>, <<2, 2, 2>>, <<2, 3, 1>>, <<2, 3, 2>>}

(* Any source, target and stored table: the checker takes the category as
   it is given. *)
PshRawCategories(n, m) ==
    {[number_of_objects |-> n, number_of_morphisms |-> m,
      source |-> UpTo(n) \o src, target |-> UpTo(n) \o tgt, table |-> table] :
         src \in InRangeValues(Constant(m - n, n)),
         tgt \in InRangeValues(Constant(m - n, n)),
         table \in InRangeValues(Constant((m - n) * (m - n), m))}

(* action[s + k * number_of_sections] = s for every non-identity morphism k *)
IdentityAction(number_of_sections, number_of_nonidentity_morphisms) ==
    [p \in 1..(number_of_sections * number_of_nonidentity_morphisms) |->
        (p - 1) % number_of_sections]

PresheafCheckInit ==
    \E shape \in PresheafCheckShapes :
        \E category \in PshRawCategories(shape[1], shape[2]),
           pi \in InRangeValues(Constant(shape[3], shape[1])),
           action \in InRangeValues(Constant(shape[3] * (shape[2] - shape[1]), shape[3])) :
            /\ presheaf_set = PresheafSet_new(category, pi)
            /\ presheaf_current = Presheaf_new(category, pi, action)
            /\ presheaf_validation = [result |-> None]
            /\ presheaf_seen = Idle

Presheaf_validate_call ==
    /\ presheaf_validation # Idle
    /\ presheaf_validation.result = None
    /\ presheaf_validation' =
          [result |-> Some(
              [validate |-> Presheaf_validate(presheaf_current, presheaf_set.category),
               associativity |->
                   Presheaf_validate_associativity(presheaf_current, presheaf_set.category),
               well_definedness |->
                   Presheaf_validate_well_definedness(presheaf_current,
                                                      presheaf_set.category)])]
    /\ UNCHANGED <<presheaf_set, presheaf_current, presheaf_seen, presheafOthers>>

Presheaf_write_identity_action ==
    /\ presheaf_validation # Idle
    /\ presheaf_current' = [presheaf_current EXCEPT !.action =
          IdentityAction(presheaf_current.number_of_sections,
                         presheaf_current.number_of_morphisms
                             - presheaf_current.number_of_objects)]
    /\ presheaf_current' # presheaf_current
    /\ presheaf_validation' = [result |-> None]
    /\ UNCHANGED <<presheaf_set, presheaf_seen, presheafOthers>>

InitPresheafCheck ==
    /\ PresheafCheckInit
    /\ OdometerIdle /\ CursorsIdle /\ HandlesIdle /\ ExamplesIdle /\ CategoriesIdle

NextPresheafCheck == Presheaf_validate_call \/ Presheaf_write_identity_action

SpecPresheafCheck == InitPresheafCheck /\ [][NextPresheafCheck]_vars

PresheafChecked == presheaf_validation # Idle /\ presheaf_validation.result # None

IsIdentityAction(p) ==
    \A sec \in 0..(p.number_of_sections - 1), f \in 0..(p.number_of_morphisms - 1) :
        Presheaf_action(p, sec, f) = sec

(***************************************************************************)
(* C12: for any category and any pi, a presheaf whose action sends every   *)
(* (section, morphism) pair to the section itself passes                   *)
(* Presheaf::validate: validate_well_definedness and                       *)
(* validate_associativity both return Ok.                                  *)
(***************************************************************************)
C12_IdentityActionValidates ==
    (PresheafChecked /\ IsIdentityAction(presheaf_current)) =>
        /\ presheaf_validation.result.some.validate = Ok
        /\ presheaf_validation.result.some.well_definedness = Ok
        /\ presheaf_validation.result.some.associativity = Ok

(***************************************************************************)
(* C13: validate_well_definedness constrains non-identity morphisms only:  *)
(* it never returns NotWellDefined{s, f} with f an identity morphism       *)
(* (f < number_of_objects).                                                *)
(***************************************************************************)
C13_IdentitiesUnconstrained ==
    PresheafChecked =>
        LET r == presheaf_validation.result.some.well_definedness
        IN r # Ok => r.f >= presheaf_current.number_of_objects

PresheafEquation(p, category, sec, f, g) ==
    Presheaf_action(p, Presheaf_action(p, sec, f), g)
        = Presheaf_action(p, sec, PshCategory_composition(category, g, f))

(***************************************************************************)
(* C14: validate_associativity returns Ok if and only if                   *)
(* action(action(s, f), g) = action(s, composition(g, f)) for every        *)
(* section s and all morphisms f, g; otherwise it returns                  *)
(* NonAssociative{triple: (s, f, g)} for a triple that violates the        *)
(* equation.                                                               *)
(***************************************************************************)
C14_PresheafAssociativityExact ==
    PresheafChecked =>
        LET p == presheaf_current
            category == presheaf_set.category
            r == presheaf_validation.result.some.associativity
            S == 0..(p.number_of_sections - 1)
            M == 0..(category.number_of_morphisms - 1)
        IN /\ r = Ok <=> \A sec \in S, f \in M, g \in M : PresheafEquation(p, category, sec, f, g)
           /\ r # Ok =>
                 /\ r.err = "NonAssociative"
                 /\ r.triple[1] \in S /\ r.triple[2] \in M /\ r.triple[3] \in M
                 /\ ~PresheafEquation(p, category, r.triple[1], r.triple[2], r.triple[3])

C14_Witness ==
    /\ PresheafChecked
    /\ presheaf_validation.result.some.associativity # Ok
    /\ presheaf_validation.result.some.associativity.triple[2]
          >= presheaf_current.number_of_objects
    /\ presheaf_validation.result.some.associativity.triple[3]
          >= presheaf_current.number_of_objects
    /\ presheaf_current.number_of_sections = 2

(***************************************************************************)
(* A caller of World: it allocates index and size slots, writes indices    *)
(* and constructs handles, in any order.  handles lists the handles it     *)
(* holds; last_alloc is Some(..) right after a call of alloc_indices or    *)
(* alloc_sizes, with the returned start and the World as it was before.    *)
(***************************************************************************)
MaxSlots == 4

MaxAllocCount == 3

MaxHandles == 2

(* the sizes of the tuples and the (domain_size, target_size) of the functions *)
TupleHandleSizes == {<<2>>, <<2, 3>>}

FunctionHandleShapes == {<<1, 3>>, <<2, 2>>}

AllocInit ==
    /\ world = World_new
    /\ handles = [held |-> <<>>]
    /\ last_alloc = None

World_alloc_indices_call ==
    /\ handles # Idle
    /\ \E count \in 0..MaxAllocCount :
          /\ world.next_index_slot + count <= MaxSlots
          /\ LET r == alloc_indices(world, count)
             IN /\ world' = r.world
                /\ last_alloc' = Some([vec |-> "indices", start |-> r.start,
                                       count |-> count, before |-> world])
    /\ UNCHANGED <<handles, allocOthers>>

World_alloc_sizes_call ==
    /\ handles # Idle
    /\ \E count \in 0..MaxAllocCount :
          /\ world.next_size_slot + count <= MaxSlots
          /\ LET r == alloc_sizes(world, count)
             IN /\ world' = r.world
                /\ last_alloc' = Some([vec |-> "sizes", start |-> r.start,
                                       count |-> count, before |-> world])
    /\ UNCHANGED <<handles, allocOthers>>

World_set_index_call ==
    /\ handles # Idle
    /\ \E position \in 0..(Len(world.indices) - 1), value \in 0..1 :
          /\ value # get_index(world, position)
          /\ world' = set_index(world, position, value)
    /\ last_alloc' = None
    /\ UNCHANGED <<handles, allocOthers>>

AtomHandle_new_call ==
    /\ handles # Idle
    /\ Len(handles.held) < MaxHandles
    /\ world.next_index_slot + 1 <= MaxSlots
    /\ LET r == AtomHandle_new(world, 2)
       IN /\ world' = r.world
          /\ handles' = [held |-> Append(handles.held, [kind |-> "atom", handle |-> r.handle])]
    /\ last_alloc' = None
    /\ UNCHANGED allocOthers

TupleHandle_new_call ==
    /\ handles # Idle
    /\ Len(handles.held) < MaxHandles
    /\ \E sizes \in TupleHandleSizes :
          /\ world.next_index_slot + Len(sizes) <= MaxSlots
          /\ world.next_size_slot + Len(sizes) <= MaxSlots
          /\ LET r == TupleHandle_new(world, sizes)
             IN /\ world' = r.world
                /\ handles' = [held |-> Append(handles.held, [kind |-> "tuple", handle |-> r.handle])]
    /\ last_alloc' = None
    /\ UNCHANGED allocOthers

FunctionHandle_new_call ==
    /\ handles # Idle
    /\ Len(handles.held) < MaxHandles
    /\ \E shape \in FunctionHandleShapes :
          /\ world.next_index_slot + shape[1] <= MaxSlots
          /\ world.next_size_slot + shape[1] <= MaxSlots
          /\ LET r == FunctionHandle_new(world, shape[1], shape[2])
             IN /\ world' = r.world
                /\ handles' = [held |-> Append(handles.held, [kind |-> "function", handle |-> r.handle])]
    /\ last_alloc' = None
    /\ UNCHANGED allocOthers

InitWorld ==
    /\ AllocInit
    /\ atom_var = Idle /\ product_var = Idle /\ usize_iter = Idle
    /\ tuple_iter = Idle /\ seen = Idle
    /\ HomsIdle /\ PairsIdle
    /\ OdometerIdle /\ HandlesIdle /\ ExamplesIdle /\ CategoriesIdle /\ PresheavesIdle

NextWorld ==
    \/ World_alloc_indices_call
    \/ World_alloc_sizes_call
    \/ World_set_index_call
    \/ AtomHandle_new_call
    \/ TupleHandle_new_call
    \/ FunctionHandle_new_call

SpecWorld == InitWorld /\ [][NextWorld]_vars

(***************************************************************************)
(* C15: arena allocation is append-only.  An allocation of count slots     *)
(* returns as its start the number of slots allocated before it (0 for the *)
(* first, 3 after a first allocation of 3), the count new slots read as 0, *)
(* and the previously allocated slots keep their values.                   *)
(***************************************************************************)
C15_AllocationAppendOnly ==
    (handles # Idle /\ last_alloc # None) =>
        LET a == last_alloc.some
            old == IF a.vec = "indices" THEN a.before.indices ELSE a.before.sizes
            new == IF a.vec = "indices" THEN world.indices ELSE world.sizes
        IN /\ a.start = Len(old)
           /\ Len(new) = Len(old) + a.count
           /\ \A p \in 1..Len(old) : new[p] = old[p]
           /\ \A p \in (Len(old) + 1)..Len(new) : new[p] = 0
           /\ a.vec = "indices" => world.sizes = a.before.sizes
           /\ a.vec = "sizes" => world.indices = a.before.indices
           /\ (a.before = World_new /\ a.vec = "indices") => a.start = 0
           /\ (a.vec = "indices" /\ a.before.indices = <<0, 0, 0>>) => a.start = 3

C15_Witness ==
    /\ handles # Idle
    /\ last_alloc # None
    /\ last_alloc.some.vec = "indices"
    /\ last_alloc.some.start = 3
    /\ last_alloc.some.count = 1
    /\ last_alloc.some.before.indices = <<0, 1, 1>>
    /\ world.indices = <<0, 1, 1, 0>>

(***************************************************************************)
(* C16: in every reachable state of a World the values sequence and the    *)
(* bounds sequence have the same length: len(indices) = len(sizes).        *)
(***************************************************************************)
C16_ParallelLengths ==
    handles # Idle => Len(world.indices) = Len(world.sizes)

(***************************************************************************)
(* C17: handle range invariant.  For every handle created by               *)
(* AtomHandle::new, TupleHandle::new or FunctionHandle::new, in every      *)
(* later state of the World its range lies inside the arena:               *)
(* indices_start + len <= len(indices), sizes_start + len <= len(sizes),   *)
(* and index_position < len(indices) for an atom.                          *)
(***************************************************************************)
C17_HandleRanges ==
    handles # Idle =>
        \A i \in 1..Len(handles.held) :
            LET h == handles.held[i].handle
            IN IF handles.held[i].kind = "atom"
               THEN h.index_position < Len(world.indices)
               ELSE /\ h.indices_start + h.len <= Len(world.indices)
                    /\ h.sizes_start + h.len <= Len(world.sizes)

C17_Witness ==
    /\ handles # Idle
    /\ Len(handles.held) = 2
    /\ handles.held[1].kind = "atom"
    /\ handles.held[2].kind = "tuple"
    /\ handles.held[2].handle.len = 2
    /\ handles.held[2].handle.indices_start + 2 = Len(world.indices)
    /\ handles.held[2].handle.sizes_start + 2 = Len(world.sizes)
    /\ Len(world.indices) # Len(world.sizes)

(***************************************************************************)
(* examples/composable_triples.rs: main creates two cursors s_var and      *)
(* t_var of hom-sets in one World and drives them in nested loops.  The     *)
(* operations of the two cursors are taken here in any order, of which the *)
(* nested loops are one.                                                   *)
(***************************************************************************)
(* (domain_size, target_size) of the hom-sets of s_var and of t_var *)
PairShapes == {<<1, 2>>, <<2, 2>>, <<2, 3>>, <<3, 2>>}

main_create_variables ==
    \E s_shape \in PairShapes, t_shape \in PairShapes :
        LET s == HomSetVariable_new(World_new, s_shape[1], s_shape[2])
            t == HomSetVariable_new(s.world, t_shape[1], t_shape[2])
        IN /\ world = t.world
           /\ s_var = s.var
           /\ t_var = t.var

s_var_initialize ==
    /\ s_var # Idle
    /\ LET r == HomSetVariable_initialize(s_var, world)
       IN world' = r.world /\ s_var' = r.var
    /\ UNCHANGED <<t_var, pairOthers>>

s_var_advance ==
    /\ s_var # Idle
    /\ LET r == HomSetVariable_advance(s_var, world)
       IN world' = r.world /\ s_var' = r.var
    /\ UNCHANGED <<t_var, pairOthers>>

t_var_initialize ==
    /\ t_var # Idle
    /\ LET r == HomSetVariable_initialize(t_var, world)
       IN world' = r.world /\ t_var' = r.var
    /\ UNCHANGED <<s_var, pairOthers>>

t_var_advance ==
    /\ t_var # Idle
    /\ LET r == HomSetVariable_advance(t_var, world)
       IN world' = r.world /\ t_var' = r.var
    /\ UNCHANGED <<s_var, pairOthers>>

InitPair ==
    /\ main_create_variables
    /\ atom_var = Idle /\ product_var = Idle /\ usize_iter = Idle
    /\ tuple_iter = Idle /\ seen = Idle
    /\ HomsIdle /\ AllocsIdle
    /\ OdometerIdle /\ HandlesIdle /\ ExamplesIdle /\ CategoriesIdle /\ PresheavesIdle

NextPair ==
    \/ s_var_initialize
    \/ s_var_advance
    \/ t_var_initialize
    \/ t_var_advance

SpecPair == InitPair /\ [][NextPair]_vars

(* the index slots a cursor owns, and their values *)
IndexRange(var) ==
    {var.current.indices_start + i : i \in 0..(var.current.len - 1)}

OwnSlots(var, w) == get_indices(w, var.current.indices_start, var.current.len)

(***************************************************************************)
(* C18: independent cursors do not interfere.  Two cursors created from    *)
(* the same World own disjoint index ranges, and initialize or advance on  *)
(* one cursor leaves every index slot and the done flag of the other       *)
(* cursor unchanged, under any interleaving of their operations.           *)
(***************************************************************************)
C18_CursorsIndependent ==
    /\ [](s_var # Idle => IndexRange(s_var) \cap IndexRange(t_var) = {})
    /\ [][/\ (s_var_initialize \/ s_var_advance) =>
                /\ OwnSlots(t_var, world') = OwnSlots(t_var, world)
                /\ t_var'.done = t_var.done
          /\ (t_var_initialize \/ t_var_advance) =>
                /\ OwnSlots(s_var, world') = OwnSlots(s_var, world)
                /\ s_var'.done = s_var.done]_vars

C18_Witness ==
    /\ s_var # Idle
    /\ s_var.current.len = 2
    /\ t_var.current.len = 2
    /\ ~s_var.done
    /\ OwnSlots(s_var, world) = <<1, 2>>
    /\ t_var.done
    /\ OwnSlots(t_var, world) = <<0, 0>>

(***************************************************************************)
(* The cursors of set/mod.rs and the CategoryVariable of cat/mod.rs, each  *)
(* driven past its exhaustion: a caller of count_monoids's cursor calls    *)
(* advance again after the loop has seen None.                             *)
(***************************************************************************)
CategoryVariable_advance_call ==
    /\ monoids_main # Idle
    /\ monoids_main.finished
    /\ LET advanced == CategoryVariable_advance(category_var, arena)
       IN /\ category_var' = advanced.var
          /\ arena' = advanced.world
    /\ monoids_main' = IF category_var.done
                       THEN [monoids_main EXCEPT !.advanced_when_done = TRUE]
                       ELSE monoids_main
    /\ UNCHANGED <<validation, categoryOthers>>

InitExhaustion == InitCursors \/ InitCategory

NextExhaustion ==
    \/ NextCursors
    \/ NextCategory
    \/ CategoryVariable_advance_call

SpecExhaustion == InitExhaustion /\ [][NextExhaustion]_vars

(***************************************************************************)
(* C19: exhaustion is absorbing.  Once a cursor's advance has signalled    *)
(* exhaustion, get returns None, and every further advance is a no-op (no  *)
(* World slot changes, get still returns None) until initialize is called. *)
(* This holds for AtomSetVariable, ProductSetVariable, HomSetVariable and  *)
(* CategoryVariable.                                                       *)
(***************************************************************************)
C19_ExhaustionAbsorbing ==
    /\ (atom_var # Idle /\ (atom_var.done \/ seen.advanced_when_done)) =>
          /\ atom_var.done
          /\ AtomSetVariable_get(atom_var) = None
          /\ AtomSetVariable_advance(atom_var, world) = [var |-> atom_var, world |-> world]
    /\ (product_var # Idle /\ (product_var.done \/ seen.advanced_when_done)) =>
          /\ product_var.done
          /\ ProductSetVariable_get(product_var) = None
          /\ ProductSetVariable_advance(product_var, world)
                = [var |-> product_var, world |-> world]
    /\ (hom_var # Idle /\ (hom_var.done \/ seen.advanced_when_done)) =>
          /\ hom_var.done
          /\ HomSetVariable_get(hom_var) = None
          /\ HomSetVariable_advance(hom_var, world) = [var |-> hom_var, world |-> world]
    /\ (monoids_main # Idle /\ (category_var.done \/ monoids_main.advanced_when_done)) =>
          /\ category_var.done
          /\ CategoryVariable_get(category_var, arena) = None
          /\ CategoryVariable_advance(category_var, arena)
                = [var |-> category_var, world |-> arena]

C19_Witness ==
    /\ product_var # Idle
    /\ product_var.sizes = <<2, 3>>
    /\ product_var.done
    /\ seen.advanced_when_done
    /\ Len(seen.yielded) = 6
    /\ ProductSetVariable_get(product_var) = None

(***************************************************************************)
(* C20: cursors are restartable.  Calling initialize at any point (before  *)
(* any advance, mid-traversal, or after exhaustion) zeroes the cursor's    *)
(* digits and clears done, and the traversal that follows yields exactly   *)
(* the same sequence of elements as the first full traversal.              *)
(***************************************************************************)
RepeatsFirstTraversal(done) ==
    (seen.initialized /\ seen.first # None) =>
        /\ IsPrefix(seen.yielded, seen.first.some)
        /\ done => seen.yielded = seen.first.some

C20_Restartable ==
    /\ atom_var # Idle =>
          LET r == AtomSetVariable_initialize(atom_var, world)
          IN /\ ~r.var.done
             /\ AtomHandle_get_index(r.var.current, r.world) = 0
             /\ RepeatsFirstTraversal(atom_var.done)
    /\ product_var # Idle =>
          LET r == ProductSetVariable_initialize(product_var, world)
          IN /\ ~r.var.done
             /\ get_indices(r.world, r.var.current.indices_start, r.var.current.len)
                   = Zeros(r.var.current.len)
             /\ RepeatsFirstTraversal(product_var.done)
    /\ hom_var # Idle =>
          LET r == HomSetVariable_initialize(hom_var, world)
          IN /\ ~r.var.done
             /\ get_indices(r.world, r.var.current.indices_start, r.var.current.len)
                   = Zeros(r.var.current.len)
             /\ RepeatsFirstTraversal(hom_var.done)

C20_Witness ==
    /\ product_var # Idle
    /\ product_var.sizes = <<2, 3>>
    /\ seen.restarted = "midway"
    /\ product_var.done
    /\ seen.first = Some(<< <<0, 0>>, <<1, 0>>, <<0, 1>>, <<1, 1>>, <<0, 2>>, <<1, 2>> >>)
    /\ seen.yielded = seen.first.some

(***************************************************************************)
(* C21: Variable::get returns None when the variable has not been          *)
(* initialized.  For a cursor just returned by create_variable             *)
(* (AtomSetVariable, ProductSetVariable, HomSetVariable), get returns None *)
(* until initialize has been called.                                       *)
(***************************************************************************)
C21_GetNoneBeforeInitialize ==
    /\ (atom_var # Idle /\ ~seen.initialized) => AtomSetVariable_get(atom_var) = None
    /\ (product_var # Idle /\ ~seen.initialized) =>
          ProductSetVariable_get(product_var) = None
    /\ (hom_var # Idle /\ ~seen.initialized) => HomSetVariable_get(hom_var) = None

(***************************************************************************)
(* C22: skipping invalid candidates is iterative.  While PresheafSet::next *)
(* skips a run of k consecutive invalid candidates, the depth of nested    *)
(* self-invocations stays bounded by a constant independent of k: a loop   *)
(* nests no invocation of next in another, whatever k is.                  *)
(***************************************************************************)
C22_SkippingIsIterative ==
    presheaf_seen # Idle => presheaf_seen.depth <= 1

(* next nests one invocation of itself for every table it passes over *)
NestingGrowsWithSkips ==
    presheaf_seen # Idle =>
        /\ presheaf_seen.depth <= presheaf_seen.skipped
        /\ presheaf_seen.skipped <= presheaf_seen.depth + 1

(***************************************************************************)
(* C23: one odometer step.  advance_counter adds 1 to digit 0; every digit *)
(* that reaches its bound is reset to 0 and the carry moves to the next    *)
(* digit; digits above the first digit that does not overflow are          *)
(* unchanged; the call returns true exactly when every digit overflowed,   *)
(* and then all digits are 0.  The step of TupleStreamingIterator::advance *)
(* is the same on positive sizes.                                          *)
(***************************************************************************)
(* the step in the words of the claim: stops is the set of digits that do not
   overflow when they receive the carry *)
OneStep(digits, limits) ==
    LET stops == {i \in 1..Len(digits) : digits[i] + 1 < limits[i]}
    IN IF stops = {}
       THEN [data |-> Zeros(Len(digits)), done |-> TRUE]
       ELSE LET first == CHOOSE i \in stops : \A j \in stops : i <= j
            IN [data |-> [i \in 1..Len(digits) |->
                            IF i < first THEN 0
                            ELSE IF i = first THEN digits[i] + 1
                            ELSE digits[i]],
                done |-> FALSE]

C23_OneOdometerStep ==
    /\ counter # Idle =>
          /\ advance_counter(counter.data, counter.limits)
                = OneStep(counter.data, counter.limits)
          /\ \A j \in 1..(Len(counter.visited) - 1) :
                /\ ~OneStep(counter.visited[j], counter.limits).done
                /\ counter.visited[j + 1] = OneStep(counter.visited[j], counter.limits).data
          /\ counter.returned =>
                /\ counter.data = Zeros(Len(counter.limits))
                /\ OneStep(counter.visited[Len(counter.visited)], counter.limits).done
    /\ (ticker # Idle /\ AllPositive(ticker.sizes)) =>
          LET r == TupleStreamingIterator_tick(ticker.array, ticker.sizes, 1)
              step == OneStep(ticker.array, ticker.sizes)
          IN r.entries = step.data /\ r.wrapped = step.done

C23_Witness ==
    /\ counter # Idle
    /\ counter.limits = <<2, 3, 2>>
    /\ counter.data = <<0, 0, 1>>
    /\ Len(counter.visited) = 7
    /\ counter.visited[6] = <<1, 2, 0>>
    /\ ~counter.returned

(***************************************************************************)
(* C24: enumeration order equals linear-index order.  During a             *)
(* ProductSetVariable or HomSetVariable traversal with positive bounds,    *)
(* the t-th element yielded (t counted from 0) has to_linear_index equal   *)
(* to t: every advance that does not exhaust the cursor increases the      *)
(* linear index of the current digit vector by exactly 1.  The same holds  *)
(* of Tuple::index along a TupleStreamingIterator.                         *)
(***************************************************************************)
C24_OrderIsLinearIndex ==
    /\ (product_var # Idle /\ AllPositive(product_var.sizes) /\ seen.initialized) =>
          /\ \A t \in 1..Len(seen.yielded) :
                calculate_linear_index(seen.yielded[t], product_var.sizes) = t - 1
          /\ ~product_var.done =>
                TupleHandle_to_linear_index(product_var.current, world)
                   = Len(seen.yielded) - 1
    /\ (hom_var # Idle /\ AllPositive(hom_var.sizes) /\ seen.initialized) =>
          /\ \A t \in 1..Len(seen.yielded) :
                calculate_linear_index(seen.yielded[t], hom_var.sizes) = t - 1
          /\ ~hom_var.done =>
                FunctionHandle_to_linear_index(hom_var.current, world)
                   = Len(seen.yielded) - 1
    /\ (tuple_iter # Idle /\ AllPositive(tuple_iter.sizes)) =>
          \A t \in 1..Len(seen.yielded) :
              Tuple_index(seen.yielded[t], tuple_iter.sizes) = t - 1

C24_Witness ==
    /\ product_var # Idle
    /\ product_var.sizes = <<2, 3, 2>>
    /\ seen.initialized
    /\ ~product_var.done
    /\ Len(seen.yielded) = 8
    /\ seen.yielded[8] = <<1, 0, 1>>
    /\ TupleHandle_to_linear_index(product_var.current, world) = 7

(***************************************************************************)
(* set/mod.rs: FunctionHandle::apply on an input whose to_linear_index is  *)
(* linear_index.                                                           *)
(***************************************************************************)
FunctionHandle_apply(handle, w, linear_index) ==
    LET result_index == get_index(w, handle.indices_start + linear_index)
    IN StackAtom_new(result_index, handle.target_size)

(***************************************************************************)
(* C25: digit range invariant.  In every state reachable by initialize and *)
(* advance on a ProductSetVariable or HomSetVariable with positive bounds, *)
(* every digit of the cursor is strictly below its bound (each             *)
(* function-table entry is in [0, target_size)), so FunctionHandle::apply  *)
(* on an in-range input always returns an atom index < target_size.        *)
(***************************************************************************)
C25_DigitsInRange ==
    /\ (product_var # Idle /\ AllPositive(product_var.sizes)) =>
          LET digits == get_indices(world, product_var.current.indices_start,
                                    product_var.current.len)
          IN \A i \in 1..Len(digits) : digits[i] < product_var.sizes[i]
    /\ (hom_var # Idle /\ AllPositive(hom_var.sizes)) =>
          LET table == get_indices(world, hom_var.current.indices_start,
                                   hom_var.current.len)
          IN /\ \A i \in 1..Len(table) : table[i] < hom_var.current.target_size
             /\ \A input \in 0..(hom_var.current.len - 1) :
                   LET atom == FunctionHandle_apply(hom_var.current, world, input)
                   IN /\ atom.index < hom_var.current.target_size
                      /\ atom.index = table[input + 1]
                      /\ atom.size = hom_var.current.target_size

C25_Witness ==
    /\ hom_var # Idle
    /\ hom_var.current.len = 3
    /\ hom_var.current.target_size = 2
    /\ ~hom_var.done
    /\ get_indices(world, hom_var.current.indices_start, 3) = <<1, 1, 1>>
    /\ FunctionHandle_apply(hom_var.current, world, 2).index = 1

(***************************************************************************)
(* C26: Category::validate runs the cheap checks before associativity.     *)
(* For a candidate that violates well-definedness (some f, g with          *)
(* target(f) != source(g) and composition(g, f) != 0) and also violates    *)
(* associativity, validate returns IncompatibleComposition, not            *)
(* NonAssociative.  The candidates looked at satisfy the identity laws, so *)
(* that the order of the other two checks decides the result.              *)
(***************************************************************************)
C26_CheapChecksFirst ==
    (Validated /\ IdentityLaw(ValidatedView)
       /\ ~WellDefinednessLaw(ValidatedView) /\ ~AssociativityLaw(ValidatedView)) =>
        /\ validation.result.some # Ok
        /\ validation.result.some.err = "IncompatibleComposition"

(***************************************************************************)
(* C27: when the associativity check fails, the error                      *)
(* NonAssociative{morphisms: (h, g, f)} names a triple that really         *)
(* violates composition(composition(h,g),f) == composition(h,              *)
(* composition(g,f)), and it is the first violating triple in the          *)
(* checker's iteration order (f outermost, then g, then h innermost).      *)
(***************************************************************************)
ViolatesAssociativity(c, h, g, f) ==
    LawComposition(c, LawComposition(c, h, g), f)
        # LawComposition(c, h, LawComposition(c, g, f))

(* (f1, g1, h1) comes before (f2, g2, h2) in the loops for f { for g { for h } } *)
IteratedBefore(f1, g1, h1, f2, g2, h2) ==
    \/ f1 < f2
    \/ f1 = f2 /\ g1 < g2
    \/ f1 = f2 /\ g1 = g2 /\ h1 < h2

AssociativityResult(c) ==
    Category_validate_associativity(
        AtomSetIterator_items(Function_domain(Category_source(c))),
        Category_composition(c))

FirstViolation(c, r) ==
    /\ r.err = "NonAssociative"
    /\ LET h == r.morphisms[1]
           g == r.morphisms[2]
           f == r.morphisms[3]
       IN /\ {h, g, f} \subseteq Morphisms(c)
          /\ ViolatesAssociativity(c, h, g, f)
          /\ \A f1, g1, h1 \in Morphisms(c) :
                IteratedBefore(f1, g1, h1, f, g, h) => ~ViolatesAssociativity(c, h1, g1, f1)

C27_FirstViolatingTriple ==
    Validated =>
        /\ AssociativityResult(ValidatedView) = Ok <=> AssociativityLaw(ValidatedView)
        /\ AssociativityResult(ValidatedView) # Ok =>
              FirstViolation(ValidatedView, AssociativityResult(ValidatedView))
        /\ (validation.result.some # Ok /\ validation.result.some.err = "NonAssociative") =>
              /\ validation.result.some = AssociativityResult(ValidatedView)
              /\ FirstViolation(ValidatedView, validation.result.some)

C27_Witness ==
    /\ Validated
    /\ category_var.morphism_count = 3
    /\ validation.result.some # Ok
    /\ validation.result.some.err = "NonAssociative"
    /\ validation.result.some.morphisms = <<1, 2, 1>>
    /\ ViolatesAssociativity(ValidatedView, 1, 2, 1)
    /\ ~ViolatesAssociativity(ValidatedView, 0, 0, 0)

(***************************************************************************)
(* A caller that allocates some slots in a World before it creates a       *)
(* CategoryVariable there, so that the category's data range need not      *)
(* start at offset 0, and then drives the cursor.  The slots allocated     *)
(* first hold the value 1 under the bound 2.                               *)
(***************************************************************************)
(* (object_count, morphism_count) of the categories created after the padding *)
SharedWorldShapes == {<<1, 1>>, <<1, 2>>, <<2, 2>>, <<1, 3>>}

SharedWorld ==
    category_var # Idle /\ validation = Idle /\ monoids_main = Idle

SharedWorldInit ==
    \E pad \in 0..MaxPadding, shape \in SharedWorldShapes :
        LET first == World_alloc(Arena_new, pad)
            held == World_put_values(
                        World_put_sizes(first.world, first.range, [i \in 1..pad |-> 2]),
                        first.range, [i \in 1..pad |-> 1])
            created == CategoryVariable_new(held, shape[1], shape[2])
        IN /\ arena = created.world
           /\ category_var = created.var
           /\ validation = Idle
           /\ monoids_main = Idle

CategoryVariable_initialize_shared ==
    /\ SharedWorld
    /\ LET r == CategoryVariable_initialize(category_var, arena)
       IN arena' = r.world /\ category_var' = r.var
    /\ UNCHANGED <<validation, monoids_main, categoryOthers>>

CategoryVariable_advance_shared ==
    /\ SharedWorld
    /\ LET r == CategoryVariable_advance(category_var, arena)
       IN arena' = r.world /\ category_var' = r.var
    /\ UNCHANGED <<validation, monoids_main, categoryOthers>>

InitSharedWorld ==
    /\ SharedWorldInit
    /\ OdometerIdle /\ CursorsIdle /\ HandlesIdle /\ ExamplesIdle /\ PresheavesIdle

NextSharedWorld ==
    \/ CategoryVariable_initialize_shared
    \/ CategoryVariable_advance_shared

SpecSharedWorld == InitSharedWorld /\ [][NextSharedWorld]_vars

(* the slots of the World that hold the composition table of the cursor's category *)
OwnCompositionSlots(var) ==
    LET composition_range == Category_composition_range(var.morphism_count,
                                                        var.object_count)
    IN {var.data_range.start + composition_range.start + i :
          i \in 1..composition_range.len}

(***************************************************************************)
(* C28: CategoryVariable::advance changes only the composition-table slots *)
(* of its own allocation: the category's source, target and identity       *)
(* slots, and every slot belonging to any other allocation in the same     *)
(* World, are unchanged by advance, also when the category is not the      *)
(* first allocation in the World (its data range does not start at offset  *)
(* 0).                                                                     *)
(***************************************************************************)
C28_AdvanceChangesOwnTableOnly ==
    SharedWorld =>
        LET r == CategoryVariable_advance(category_var, arena)
        IN /\ r.world.sizes = arena.sizes
           /\ Len(r.world.values) = Len(arena.values)
           /\ \A p \in 1..Len(arena.values) :
                 p \notin OwnCompositionSlots(category_var) =>
                     r.world.values[p] = arena.values[p]

(***************************************************************************)
(* C29: in every category view yielded by CategoryVariable with n objects  *)
(* the identity map is the index itself: identity(x) = x for every object  *)
(* x in 0..n-1, so the first n morphisms are the identities.               *)
(***************************************************************************)
C29_IdentityIsIndex ==
    SharedWorld =>
        LET yielded == CategoryVariable_get(category_var, arena)
        IN yielded # None =>
               \A x \in Objects(yielded.some) :
                   Function_apply(Category_identity(yielded.some),
                                  <<StackAtom_new(x, yielded.some.object_count)>>).index = x

(***************************************************************************)
(* C30: the category cursor stores and enumerates composition entries only *)
(* for pairs of non-identity morphisms: for n objects and m morphisms the  *)
(* composition table of a yielded view has (m - n)^2 entries.              *)
(***************************************************************************)
C30_TableOfNonIdentityPairs ==
    SharedWorld =>
        LET yielded == CategoryVariable_get(category_var, arena)
            non_identity == category_var.morphism_count - category_var.object_count
        IN yielded # None =>
               Function_domain(Category_composition(yielded.some))
                   = non_identity * non_identity

(* the slot of the action table that belongs to a section and a
   non-identity morphism, counted from 1 *)
ActionSlot(p, sec, f) == sec + (f - p.number_of_objects) * p.number_of_sections + 1

(***************************************************************************)
(* C31: Presheaf::action(s, f) returns s for every identity morphism f     *)
(* (f < number_of_objects) whatever the action table holds; for a          *)
(* non-identity f it returns the table entry at                            *)
(* s + (f - number_of_objects) * number_of_sections, and with a table of   *)
(* number_of_sections * (number_of_morphisms - number_of_objects) entries  *)
(* every such read with s < number_of_sections and f < number_of_morphisms *)
(* is in range and distinct (s, f) pairs read distinct entries.            *)
(***************************************************************************)
C31_ActionReadsItsSlot ==
    presheaf_validation # Idle =>
        LET p == presheaf_current
            S == 0..(p.number_of_sections - 1)
            I == 0..(p.number_of_objects - 1)
            F == p.number_of_objects..(p.number_of_morphisms - 1)
        IN /\ Len(p.action)
                 = p.number_of_sections * (p.number_of_morphisms - p.number_of_objects)
           /\ \A sec \in S, f \in I : Presheaf_action(p, sec, f) = sec
           /\ \A sec \in S, f \in F :
                 /\ ActionSlot(p, sec, f) \in 1..Len(p.action)
                 /\ Presheaf_action(p, sec, f) = p.action[ActionSlot(p, sec, f)]
           /\ \A s1, s2 \in S, f1, f2 \in F :
                 ActionSlot(p, s1, f1) = ActionSlot(p, s2, f2) => s1 = s2 /\ f1 = f2

C31_Witness ==
    /\ PresheafChecked
    /\ presheaf_current.number_of_objects = 1
    /\ presheaf_current.number_of_morphisms = 3
    /\ presheaf_current.action = <<0, 1, 1, 1>>
    /\ Presheaf_action(presheaf_current, 1, 1) = 1
    /\ Presheaf_action(presheaf_current, 1, 0) = 1
    /\ Presheaf_action(presheaf_current, 0, 2) = 1

(***************************************************************************)
(* C32: PresheafSet enumeration keeps the fiber map fixed: after reset or  *)
(* next of a PresheafSet built with pi, the presheaf handed to the caller  *)
(* has its pi equal to that pi, for every pi (not only the all-zero one);  *)
(* reset and next modify only the action table.                            *)
(***************************************************************************)
C32_FiberMapFixed ==
    (presheaf_set # Idle /\ presheaf_seen # Idle) =>
        /\ presheaf_current.pi = presheaf_set.pi
        /\ presheaf_current.number_of_sections = Len(presheaf_set.pi)
        /\ presheaf_current.number_of_objects = presheaf_set.category.number_of_objects
        /\ presheaf_current.number_of_morphisms = presheaf_set.category.number_of_morphisms

(***************************************************************************)
(* C33: for every AtomSet, ProductSet and HomSet, including empty ones (an *)
(* AtomSet of size 0, a product with a factor of size 0, a HomSet with a   *)
(* non-empty domain and an empty codomain), the number of elements yielded *)
(* by initialize followed by the get / advance loop equals the set's       *)
(* size().                                                                 *)
(***************************************************************************)
C33_YieldsSizeElements ==
    /\ (atom_var # Idle /\ seen.initialized /\ atom_var.done) =>
          Len(seen.yielded) = atom_var.size
    /\ (product_var # Idle /\ seen.initialized /\ product_var.done) =>
          Len(seen.yielded) = ProductSet_size(product_var.sizes)
    /\ (hom_var # Idle /\ seen.initialized /\ hom_var.done) =>
          Len(seen.yielded) = Product(hom_var.sizes)

(***************************************************************************)
(* set/utils/mod.rs: IntTicker over the state and the integer it borrows.  *)
(***************************************************************************)
IntTicker_new(size) == [state |-> "Start", int |-> 0, size |-> size]

IntTicker_advance(t) ==
    CASE t.state = "Start" -> [t EXCEPT !.state = "Running"]
      [] t.state = "Running" ->
            IF (t.int + 1) % UsizeValues = t.size
            THEN [t EXCEPT !.int = 0, !.state = "End"]
            ELSE [t EXCEPT !.int = (@ + 1) % UsizeValues]
      [] t.state = "End" -> t

ArrayTicker_new(sizes) == [state |-> "Start", array |-> Zeros(Len(sizes)), sizes |-> sizes]

ArrayTicker_advance(t) ==
    CASE t.state = "Start" -> [t EXCEPT !.state = "Running"]
      [] t.state = "Running" ->
            LET r == ArrayTicker_tick(t.array, t.sizes, 1)
            IN [t EXCEPT !.array = r.array,
                         !.state = IF r.wrapped THEN "End" ELSE "Running"]
      [] t.state = "End" -> t

(* `+= 1` on the largest usize: with overflow checks (the debug profile)
   the increment panics, without them (the release profile) it wraps. *)
IncrementOverflows(value) == value + 1 = UsizeValues

(* Whether the loop `for i { entry += 1; if entry == sizes[i] { entry = 0 }
   else { return } }` executes an overflowing increment. *)
RECURSIVE TickOverflows(_, _, _)
TickOverflows(array, sizes, i) ==
    IF i > Len(array) THEN FALSE
    ELSE IF IncrementOverflows(array[i]) THEN TRUE
    ELSE IF array[i] + 1 = sizes[i] THEN TickOverflows(array, sizes, i + 1)
    ELSE FALSE

(***************************************************************************)
(* A caller that builds one Start/Running/End iterator or ticker and calls *)
(* advance on it for ever.  overflow_checks is the build profile: an       *)
(* overflowing increment aborts the program under overflow checks (no      *)
(* further step is taken) and wraps otherwise.                             *)
(***************************************************************************)
Profile(checks) == [overflow_checks |-> checks]

IteratorsInit ==
    \E checks \in BOOLEAN :
        \/ /\ \E size \in 0..MaxLimit :
                 usize_iter = USizeStreamingIterator_new(size) @@ Profile(checks)
           /\ tuple_iter = Idle /\ ticker = Idle /\ semigroup_main = Idle
        \/ /\ \E sizes \in LimitVectors :
                 tuple_iter = TupleStreamingIterator_new(sizes) @@ Profile(checks)
           /\ usize_iter = Idle /\ ticker = Idle /\ semigroup_main = Idle
        \/ /\ \E sizes \in LimitVectors :
                 ticker = ArrayTicker_new(sizes) @@ Profile(checks)
           /\ usize_iter = Idle /\ tuple_iter = Idle /\ semigroup_main = Idle
        \/ /\ \E size \in 0..MaxLimit :
                 ticker = IntTicker_new(size) @@ Profile(checks)
           /\ usize_iter = Idle /\ tuple_iter = Idle /\ semigroup_main = Idle
        \/ /\ \E sizes \in LimitVectors :
                 semigroup_main =
                     [multiplication |-> semigroup_TupleStreamingIterator_new(sizes)]
                         @@ Profile(checks)
           /\ usize_iter = Idle /\ tuple_iter = Idle /\ ticker = Idle

IteratorOthers ==
    <<counter, world, atom_var, product_var, seen, handleVars, categoryVars,
      presheafVars, presheafCheckVars, homVars, allocVars, pairVars>>

USizeStreamingIterator_advance_call ==
    /\ usize_iter # Idle
    /\ ~(/\ usize_iter.overflow_checks
         /\ usize_iter.state = "Running"
         /\ IncrementOverflows(usize_iter.element.index))
    /\ usize_iter' = USizeStreamingIterator_advance(usize_iter)
    /\ UNCHANGED <<tuple_iter, ticker, semigroup_main, IteratorOthers>>

TupleStreamingIterator_advance_call ==
    /\ tuple_iter # Idle
    /\ ~(/\ tuple_iter.overflow_checks
         /\ tuple_iter.state = "Running"
         /\ TickOverflows(tuple_iter.element.entries, tuple_iter.sizes, 1))
    /\ tuple_iter' = TupleStreamingIterator_advance(tuple_iter)
    /\ UNCHANGED <<usize_iter, ticker, semigroup_main, IteratorOthers>>

ArrayTicker_advance_call ==
    /\ ticker # Idle
    /\ "array" \in DOMAIN ticker
    /\ ~(/\ ticker.overflow_checks
         /\ ticker.state = "Running"
         /\ TickOverflows(ticker.array, ticker.sizes, 1))
    /\ ticker' = ArrayTicker_advance(ticker)
    /\ UNCHANGED <<usize_iter, tuple_iter, semigroup_main, IteratorOthers>>

IntTicker_advance_call ==
    /\ ticker # Idle
    /\ "int" \in DOMAIN ticker
    /\ ~(/\ ticker.overflow_checks
         /\ ticker.state = "Running"
         /\ IncrementOverflows(ticker.int))
    /\ ticker' = IntTicker_advance(ticker)
    /\ UNCHANGED <<usize_iter, tuple_iter, semigroup_main, IteratorOthers>>

semigroup_TupleStreamingIterator_advance_call ==
    /\ semigroup_main # Idle
    /\ ~(/\ semigroup_main.overflow_checks
         /\ semigroup_main.multiplication.state = "Running"
         /\ TickOverflows(semigroup_main.multiplication.current,
                          semigroup_main.multiplication.sizes, 1))
    /\ semigroup_main' = [semigroup_main EXCEPT !.multiplication =
                             semigroup_TupleStreamingIterator_advance(@)]
    /\ UNCHANGED <<usize_iter, tuple_iter, ticker, IteratorOthers>>

InitIterators ==
    /\ IteratorsInit
    /\ counter = Idle
    /\ world = Idle /\ atom_var = Idle /\ product_var = Idle /\ seen = Idle
    /\ HomsIdle /\ AllocsIdle /\ PairsIdle
    /\ HandlesIdle /\ CategoriesIdle /\ PresheavesIdle

NextIterators ==
    \/ USizeStreamingIterator_advance_call
    \/ TupleStreamingIterator_advance_call
    \/ ArrayTicker_advance_call
    \/ IntTicker_advance_call
    \/ semigroup_TupleStreamingIterator_advance_call

(* advance is called again and again as long as the program runs *)
SpecIterators == InitIterators /\ [][NextIterators]_vars /\ WF_vars(NextIterators)

IteratorState ==
    IF usize_iter # Idle THEN usize_iter.state
    ELSE IF tuple_iter # Idle THEN tuple_iter.state
    ELSE IF ticker # Idle THEN ticker.state
    ELSE semigroup_main.multiplication.state

(***************************************************************************)
(* C34: the Start/Running/End streaming iterators terminate for every      *)
(* sizes vector: for BasicSet, ProductSet tuples and ArrayTicker /          *)
(* IntTicker, including a size of 0 or a sizes vector containing a 0, the  *)
(* state End is reached after finitely many advance calls, and End is      *)
(* absorbing (advance in End changes nothing).                             *)
(***************************************************************************)
C34_IteratorsTerminate ==
    /\ <>(IteratorState = "End")
    /\ [][IteratorState = "End" => UNCHANGED vars]_vars

(***************************************************************************)
(* C35: all streaming iterators agree on the Start state: before the first *)
(* advance, get returns None, and the all-zero element is first observable *)
(* only after the first advance (state Running).  Stated for the BasicSet  *)
(* iterator, TupleStreamingIterator and FunctionStreamingIterator.         *)
(***************************************************************************)
C35_GetNoneInStart ==
    /\ (usize_iter # Idle /\ usize_iter.state = "Start") =>
          USizeStreamingIterator_get(usize_iter) = None
    /\ (tuple_iter # Idle /\ tuple_iter.state = "Start") =>
          TupleStreamingIterator_get(tuple_iter) = None
    /\ (function_iter # Idle /\ function_iter.state = "Start") =>
          FunctionStreamingIterator_get(function_iter) = None

(* The table that the example's iterator currently yields, read as the
   composition table of n morphisms: a Function of n * n slots of size n. *)
FlatTable == semigroup_main.multiplication.current

AsComposition(table, n) == Function_new(table, [i \in 1..(n * n) |-> n])

(***************************************************************************)
(* C36: the specialized checker and the generic category checker agree:    *)
(* for every n and every table of n * n entries in [0, n),                 *)
(* is_associative(table, n) is true if and only if                         *)
(* Category::validate_associativity returns Ok for the same flat table     *)
(* used as the composition table of n morphisms (although one reads        *)
(* f(i, j) at n * i + j and the other reads composition(g, f) at           *)
(* g + f * n).                                                             *)
(***************************************************************************)
C36_CheckersAgree ==
    (semigroup_main # Idle /\ semigroup_main.multiplication.state = "Running") =>
        (is_associative(FlatTable, semigroup_main.n)
            <=> Category_validate_associativity(
                    AtomSetIterator_items(semigroup_main.n),
                    AsComposition(FlatTable, semigroup_main.n)) = Ok)

C36_Witness ==
    /\ semigroup_main # Idle
    /\ semigroup_main.multiplication.state = "Running"
    /\ semigroup_main.n = 2
    /\ FlatTable = <<0, 0, 1, 1>>
    /\ semigroup_main.tables = 13
    /\ is_associative(FlatTable, 2)
    /\ Category_validate_associativity(AtomSetIterator_items(2),
                                       AsComposition(FlatTable, 2)) = Ok

(* The binary operation that a flat table of n * n entries gives on
   {0 .. n-1}, and the monoid laws with 0 as the identity element. *)
TableOp(table, n, a, b) == table[a + b * n + 1]

IsMonoidTable(table, n) ==
    /\ \A a, b, c \in 0..(n - 1) :
          TableOp(table, n, TableOp(table, n, a, b), c)
              = TableOp(table, n, a, TableOp(table, n, b, c))
    /\ \A a \in 0..(n - 1) :
          TableOp(table, n, 0, a) = a /\ TableOp(table, n, a, 0) = a

MonoidTables(n) ==
    {table \in InRangeValues([i \in 1..(n * n) |-> n]) : IsMonoidTable(table, n)}

(***************************************************************************)
(* C37: count_monoids(n) visits each of the n^(n*n) composition tables     *)
(* exactly once and returns the number of tables on {0..n-1} that are      *)
(* associative and have element 0 as a two-sided identity (n = 1, 2, 3):   *)
(* the table visited after t others is the t-th in little-endian order, a  *)
(* visited table is counted exactly when it is such a table, and when the  *)
(* loop ends all tables have been visited and the count is their number.   *)
(***************************************************************************)
C37_CountMonoidsExact ==
    monoids_main # Idle =>
        LET n == monoids_main.n
            category == CategoryVariable_get(category_var, arena)
        IN /\ monoids_main.tables <= Pow(n, n * n)
           /\ (~monoids_main.finished /\ category # None) =>
                 LET composition == Category_composition(category.some)
                 IN LittleEndianIndex(composition.values, composition.sizes)
                        = monoids_main.tables
           /\ category = None => monoids_main.tables = Pow(n, n * n)
           /\ monoids_main.last # None =>
                 (monoids_main.counted
                     <=> IsMonoidTable(Category_composition(monoids_main.last.some).values, n))
           /\ monoids_main.finished =>
                 /\ monoids_main.tables = Pow(n, n * n)
                 /\ monoids_main.count = Cardinality(MonoidTables(n))

C37_Witness ==
    /\ monoids_main # Idle
    /\ monoids_main.finished
    /\ monoids_main.n = 3
    /\ monoids_main.tables = 19683
    /\ monoids_main.count = 11

(* The array of StackAtoms that carries the digits and sizes of a StackTuple. *)
StackAtomsOf(tuple) ==
    [i \in 1..Len(tuple.indices) |-> StackAtom_new(tuple.indices[i], tuple.sizes[i])]

(***************************************************************************)
(* C38: the little-endian flattening convention is applied identically by  *)
(* every implementation: for an array of StackAtoms [a_0, ..., a_{N-1}]    *)
(* with arbitrary (possibly different) sizes, to_linear_index equals       *)
(* SUM_i a_i.index * PRODUCT_{j<i} a_j.size, the same value                *)
(* calculate_linear_index and StackTuple<N> give for the same digits and   *)
(* sizes.                                                                  *)
(***************************************************************************)
C38_SameFlatteningEverywhere ==
    stack_tuple # Idle =>
        /\ StackAtoms_to_linear_index(StackAtomsOf(stack_tuple))
              = LittleEndianIndex(stack_tuple.indices, stack_tuple.sizes)
        /\ StackAtoms_to_linear_index(StackAtomsOf(stack_tuple))
              = calculate_linear_index(stack_tuple.indices, stack_tuple.sizes)
        /\ StackAtoms_to_linear_index(StackAtomsOf(stack_tuple))
              = StackTuple_to_linear_index(stack_tuple)

====
